---- MODULE Spec2Model ----
(***************************************************************************)
(* Model of qcodes/dataset/data_set.py: the DataSet run handle, its        *)
(* lifecycle flags, schema declaration, result ingestion and the           *)
(* deprecated mutation API, over one run record of the storage backend.    *)
(*                                                                         *)
(* Python strings are sequences of one-character strings, so that the      *)
(* ','.join / split(',') / split(', ') conversions of the source are       *)
(* computed rather than assumed.  A Python dict is a sequence of           *)
(* <<key, value>> pairs with distinct keys (insertion order).              *)
(*                                                                         *)
(* DataSet.__init__ assigns _guid, dsi and the five attributes seeded from  *)
(* the run metadata.  The methods also read conn, run_id, table_name,      *)
(* data_storage_interface and subscribers, which no method of the class    *)
(* assigns: reading one that is not bound raises AttributeError.  A        *)
(* DataSet object records which of them its user has assigned (attrs);     *)
(* once assigned they refer to the run's backend record (variable db) and  *)
(* to the registry.  The sqlite_base / storage-interface functions are not *)
(* part of the source file and are modelled from the specification.        *)
(*                                                                         *)
(* ds  : the DataSet object in use (flags, schema, metadata; start_actions *)
(*       counts its calls of _perform_start_actions)                       *)
(* db  : the run record of the backend (metadata, results table)           *)
(* ret : the last call, the exception it raised ("None": it returned) and   *)
(*       the integer it returned, if any                                   *)
(* subs     : the _Subscriber objects created so far, in creation order;  *)
(*            the identifier of a subscriber is its position               *)
(* registry : DataSet.subscribers, the identifiers in insertion order      *)
(* triggers : the identifiers whose trigger is installed in the backend    *)
(* main     : the position of the caller's thread inside a DataSet method  *)
(*            that runs subscriber code or waits for a thread              *)
(* runs     : the run records of a backend with several runs, by GUID     *)
(* objs     : the DataSet objects constructed on that backend, each with   *)
(*            its GUID and its in-memory state                             *)
(***************************************************************************)
EXTENDS Integers, Sequences, FiniteSets, TLC

VARIABLES ds, db, ret, subs, registry, triggers, main, runs, objs

vars == <<ds, db, ret, subs, registry, triggers, main, runs, objs>>

\* ------------------------------------------------------------------ bounds
MaxRows == 1
MaxBatch == 1
\* the row-count scenario: rows in the table, value maps in one add_results
RowsMax == 4
RowsBatch == 2
\* the subscriber scenario: rows inserted, subscribers created, the largest
\* min_count, and callback invocations after which mark_complete is no
\* longer called
SubRows == 2
MaxSubs == 1
MaxMinCount == 2
MaxLog == 3
\* the unsubscription scenario: rows inserted, subscribers created
UnsubRows == 2
UnsubSubs == 1
AllSubs == 2
AllRows == 1
\* subscribe(..., min_count: int = 1, ...)
DefaultMinCount == 1
\* the scenario with several runs: DataSet objects constructed, rows per run
MaxObjs == 2
FreshObjs == 3
GuidRows == 1

\* ------------------------------------------------------------ input domains
NoneVal == "None"
\* parameter names: identifiers (non-empty, free of ',' and ' '); "xy" has
\* the other two names as substrings
Names == {<<"x">>, <<"y">>, <<"x", "y">>}
Values == {"0"}
Tags == {"tag"}
MetaValues == {"a"}
RunGuid == "guid-1"
Guids == {RunGuid, "guid-2"}
\* the GUIDs generate_guid can produce
GuidPool == {"guid-1", "guid-2"}

\* ------------------------------------------------------------ Python strings
RECURSIVE Join(_, _)
\* sep.join(parts)
Join(parts, sep) ==
    IF Len(parts) = 0 THEN <<>>
    ELSE IF Len(parts) = 1 THEN parts[1]
    ELSE parts[1] \o sep \o Join(Tail(parts), sep)

\* does sep occur in s at position i
StartsAt(s, sep, i) ==
    /\ i + Len(sep) - 1 <= Len(s)
    /\ \A k \in 1..Len(sep) : s[i + k - 1] = sep[k]

RECURSIVE Split(_, _)
\* s.split(sep), sep non-empty: ''.split(sep) is ['']
Split(s, sep) ==
    LET hits == {i \in 1..Len(s) : StartsAt(s, sep, i)}
    IN  IF hits = {} THEN <<s>>
        ELSE LET i == CHOOSE j \in hits : \A k \in hits : j <= k
             IN  <<SubSeq(s, 1, i - 1)>>
                     \o Split(SubSeq(s, i + Len(sep), Len(s)), sep)

Comma == <<",">>
CommaSpace == <<",", " ">>

InSeq(e, s) == \E i \in 1..Len(s) : s[i] = e

\* --------------------------------------------------------------- ParamSpec
\* ParamSpec(name, inferred_from=[...], depends_on=[...]): the two reference
\* lists are kept as ', '-joined strings.
ParamSpec(name, inferred, depends) ==
    [name |-> name,
     inferred_from |-> Join(inferred, CommaSpace),
     depends_on |-> Join(depends, CommaSpace)]


\* ------------------------------------------------------- storage backend
\* create_run: the run record right after creation.  run_started is the
\* creation time, run_completed is absent, the schema descriptor is empty;
\* description_written records that update_run_description has run.
CreateRun ==
    [guid |-> RunGuid,
     run_started |-> "t0",
     run_completed |-> NoneVal,
     run_description |-> <<>>,
     description_written |-> FALSE,
     tags |-> [t \in {} |-> NoneVal],
     snapshot |-> NoneVal,
     columns |-> {},
     rows |-> <<>>]

\* run_exists
RunExists(b, guid) == b.guid = guid

\* create_run for the run with the given GUID
CreateRunFor(guid) == [CreateRun EXCEPT !.guid = guid]

\* json.dumps / json.loads: the text <<"json", doc>> of a document doc
JsonDumps(doc) == <<"json", doc>>
JsonLoads(text) == text[2]

\* retrieve_meta_data: the metadata snapshot of a run; every run is created
\* with the same name, in the same experiment; the snapshot is the document
\* of the stored text, or absent
RetrieveMetaData(b) ==
    [name |-> "dataset", exp_name |-> "exp", sample_name |-> "sample",
     snapshot |-> IF b.snapshot = NoneVal THEN NoneVal
                  ELSE JsonLoads(b.snapshot),
     run_started |-> b.run_started,
     run_completed |-> b.run_completed,
     run_description |-> b.run_description, tags |-> b.tags]

\* generate_guid: the GUIDs it can return for a backend holding the runs rs
GenerateGuid(rs) == GuidPool \ DOMAIN rs

\* sqlite_base.add_parameter: a new column of the results table
BackendAddParameter(b, spec) == [b EXCEPT !.columns = @ \cup {spec.name}]

\* sqlite_base.add_parameter(conn, table, *specs): one column per spec
BackendAddParameters(b, specs) ==
    [b EXCEPT !.columns = @ \cup {specs[i].name : i \in 1..Len(specs)}]

\* sqlite_base.update_run_description
UpdateRunDescription(b, desc) ==
    [b EXCEPT !.run_description = desc, !.description_written = TRUE]

\* sqlite_base.mark_run_complete: records the completion timestamp
MarkRunComplete(b) == [b EXCEPT !.run_completed = "t1"]

\* sqlite_base.add_meta_data: the value goes to the field of the run record
\* the tag names; the field 'snapshot' is the one retrieve_meta_data reads
\* the snapshot from
AddMetaData(b, tag, value) ==
    IF tag = "snapshot" THEN [b EXCEPT !.snapshot = value]
    ELSE [b EXCEPT !.tags = [t \in DOMAIN @ \cup {tag} |->
                                 IF t = tag THEN value ELSE @[t]]]

\* sqlite_base.length
Length(b) == Len(b.rows)

\* DataStorageInterface.retrieve_number_of_results
RetrieveNumberOfResults(b) == Len(b.rows)

\* ------------------------------------------------------------- DataSet
\* the attributes the methods read and __init__ does not assign
UnassignedAttrs ==
    {"conn", "run_id", "table_name", "data_storage_interface", "subscribers"}
\* those that refer to the run in the backend
BackendAttrs == {"conn", "run_id", "table_name", "data_storage_interface"}

\* self.a, ... for the attributes of A: they are all bound
Bound(d, A) == A \subseteq d.attrs

\* the user of the object assigns the attributes of A (ds.conn = conn, ...)
BindAttrs(d, A) == [d EXCEPT !.attrs = @ \cup A]

\* the constructor seeding the flags of a new run with False and those of an
\* existing run from its metadata
InitFromMetaData_NewRunNotCompleted(origin, b) ==
    [origin |-> origin,
     completed |-> IF origin = "fresh" THEN FALSE
                   ELSE b.run_completed = NoneVal,
     started |-> IF origin = "fresh" THEN FALSE
                 ELSE b.run_started = NoneVal,
     description |-> b.run_description,
     metadata |-> b.tags,
     start_actions |-> 0,
     attrs |-> {}]

\* DataSet.__init__, "Assign all attributes": the flags are seeded from the
\* fetched run metadata.
InitFromMetaData(origin, b) ==
    [origin |-> origin,
     completed |-> (b.run_completed = NoneVal),
     started |-> (b.run_started = NoneVal),
     description |-> b.run_description,
     metadata |-> b.tags,
     start_actions |-> 0,
     attrs |-> {}]

\* DataSet.parameters: ','.join of the names in schema order
Parameters(d) ==
    Join([i \in 1..Len(d.description) |-> d.description[i].name], Comma)

\* the outcome of a call: the exception raised ("None": the call returned)
\* and the integer it returned, <<n>> (<<>>: it returned None, or raised)
RetVal(op, exc, val) == [op |-> op, exc |-> exc, val |-> val]
Ret(op, exc) == RetVal(op, exc, <<>>)

\* add_parameter resolving references against the schema with spec included
AddParameter_SelfReference(d, b, spec) ==
    LET old_params == IF Parameters(d) # <<>>
                      THEN Split(Parameters(d), Comma) ELSE <<>>
        new_params == Append(old_params, spec.name)
        inf0 == Split(spec.inferred_from, CommaSpace)
        inf_from == IF inf0 = <<<<>>>> THEN <<>> ELSE inf0
        dep0 == Split(spec.depends_on, CommaSpace)
        dep_on == IF dep0 = <<<<>>>> THEN <<>> ELSE dep0
    IN  IF InSeq(spec.name, old_params)
           \/ (\E i \in 1..Len(inf_from) : ~InSeq(inf_from[i], new_params))
           \/ (\E i \in 1..Len(dep_on) : ~InSeq(dep_on[i], new_params))
        THEN [d |-> d, b |-> b, exc |-> "ValueError"]
        ELSE IF ~Bound(d, {"conn", "table_name"})
        THEN [d |-> d, b |-> b, exc |-> "AttributeError"]
        ELSE [d |-> [d EXCEPT !.description = Append(@, spec)],
              b |-> BackendAddParameter(b, spec),
              exc |-> "None"]

\* DataSet.add_parameter(spec) on handle state d and backend b
AddParameter(d, b, spec) ==
    LET old_params == IF Parameters(d) # <<>>
                      THEN Split(Parameters(d), Comma) ELSE <<>>
        inf0 == Split(spec.inferred_from, CommaSpace)
        inf_from == IF inf0 = <<<<>>>> THEN <<>> ELSE inf0
        dep0 == Split(spec.depends_on, CommaSpace)
        dep_on == IF dep0 = <<<<>>>> THEN <<>> ELSE dep0
    IN  IF InSeq(spec.name, old_params)
           \/ (\E i \in 1..Len(inf_from) : ~InSeq(inf_from[i], old_params))
           \/ (\E i \in 1..Len(dep_on) : ~InSeq(dep_on[i], old_params))
        THEN [d |-> d, b |-> b, exc |-> "ValueError"]
        ELSE IF ~Bound(d, {"conn", "table_name"})
        THEN [d |-> d, b |-> b, exc |-> "AttributeError"]
        ELSE [d |-> [d EXCEPT !.description = Append(@, spec)],
              b |-> BackendAddParameter(b, spec),
              exc |-> "None"]

\* DataSet.add_parameters(specs) (deprecated): the specs go to the backend
\* as they are; no name is checked, the description is not touched
AddParameters(d, b, specs) ==
    IF ~Bound(d, {"conn", "table_name"})
    THEN [d |-> d, b |-> b, exc |-> "AttributeError"]
    ELSE [d |-> d, b |-> BackendAddParameters(b, specs), exc |-> "None"]

\* DataSet.toggle_debug: self._debug is read first, and no method assigns it
ToggleDebug(d, b) == [d |-> d, b |-> b, exc |-> "AttributeError"]

\* ------------------------------------------------------- Python dicts
DictKeys(dict) == [i \in 1..Len(dict) |-> dict[i][1]]
HasKey(dict, k) == \E i \in 1..Len(dict) : dict[i][1] = k
\* dict.get(k, None)
DictGet(dict, k) ==
    IF HasKey(dict, k)
    THEN dict[CHOOSE i \in 1..Len(dict) : dict[i][1] = k][2]
    ELSE NoneVal

\* all dicts with keys in K (pairwise distinct, in insertion order), values in V
DictsOver(K, V) ==
    UNION {{dd \in [1..n -> K \X V] :
               \A i, j \in 1..n : i # j => dd[i][1] # dd[j][1]}
           : n \in 0..Cardinality(K)}

\* a set as a tuple, in some fixed order: tuple(frozenset(...))
RECURSIVE SetToSeq(_)
SetToSeq(S) ==
    IF S = {} THEN <<>>
    ELSE LET e == CHOOSE x \in S : TRUE IN <<e>> \o SetToSeq(S \ {e})

\* ------------------------------------------------ storage backend, rows
\* store_results({name: [values]}): one new row per position of the value
\* lists; a column the call does not name holds "no value" in the new rows.
\* A name that is not a column of the results table is refused.
StoreResults(b, results) ==
    LET n == IF Len(results) = 0 THEN 0 ELSE Len(results[1][2])
        NewRow(j) == [c \in Names |->
                        IF HasKey(results, c)
                        THEN DictGet(results, c)[j] ELSE NoneVal]
    IN  IF \E i \in 1..Len(results) : results[i][1] \notin b.columns
        THEN [b |-> b, exc |-> "OperationalError"]
        ELSE [b |-> [b EXCEPT !.rows = @ \o [j \in 1..n |-> NewRow(j)]],
              exc |-> "None"]

\* sqlite_base.modify_values: rewrite the named cells of the row at the
\* zero-based index; an index outside the table matches no row.
ModifyValues(b, index, results) ==
    IF index + 1 \in 1..Len(b.rows)
    THEN [b EXCEPT !.rows[index + 1] =
             [c \in Names |-> IF HasKey(results, c)
                              THEN DictGet(results, c) ELSE @[c]]]
    ELSE b

RECURSIVE ModifyManyValues(_, _, _, _)
\* sqlite_base.modify_many_values(conn, table, start_index, columns, values)
\* with the two flat lists modify_results hands it: the k-th column/value
\* pair rewrites row start_index + k
ModifyManyValues(b, start_index, columns, values) ==
    IF Len(columns) = 0 THEN b
    ELSE ModifyManyValues(
             ModifyValues(b, start_index, <<<<columns[1], values[1]>>>>),
             start_index + 1, Tail(columns), Tail(values))

\* ------------------------------------------------- DataSet, lifecycle
\* DataSet.paramspecs: dict(zip(names, params)), so the last spec of a name
HasParam(d, name) == \E i \in 1..Len(d.description) : d.description[i].name = name
ParamSpecOf(d, name) ==
    d.description[CHOOSE i \in 1..Len(d.description) :
                     /\ d.description[i].name = name
                     /\ \A j \in 1..Len(d.description) :
                            d.description[j].name = name => j <= i]

\* DataSet._perform_start_actions: write down the run description
PerformStartActions(d, b) ==
    IF Bound(d, {"conn", "run_id"})
    THEN [b |-> UpdateRunDescription(b, d.description), exc |-> "None"]
    ELSE [b |-> b, exc |-> "AttributeError"]

\* the start transition at the head of add_result and add_results
\* (start_actions counts the completed calls of _perform_start_actions by
\* the handle); when _perform_start_actions raises the flag is not set
StartIfNotStarted(d, b) ==
    IF ~d.started
    THEN LET p == PerformStartActions(d, b) IN
         IF p.exc # "None" THEN [d |-> d, b |-> b, exc |-> p.exc]
         ELSE [d |-> [d EXCEPT !.started = TRUE, !.start_actions = @ + 1],
               b |-> p.b, exc |-> "None"]
    ELSE [d |-> d, b |-> b, exc |-> "None"]

\* DataSet.completed setter: the flag is assigned, then a true value marks
\* the run in the backend
SetCompleted(d, b, value) ==
    IF value /\ ~Bound(d, {"conn", "run_id"})
    THEN [d |-> [d EXCEPT !.completed = value], b |-> b,
          exc |-> "AttributeError"]
    ELSE [d |-> [d EXCEPT !.completed = value],
          b |-> IF value THEN MarkRunComplete(b) ELSE b,
          exc |-> "None"]

\* DataSet.mark_complete up to its loop: self.completed = True, then
\* self.subscribers.values()
MarkComplete(d, b) ==
    LET s == SetCompleted(d, b, TRUE) IN
    IF s.exc = "None" /\ ~Bound(d, {"subscribers"})
    THEN [s EXCEPT !.exc = "AttributeError"]
    ELSE s

\* DataSet.add_metadata: the in-memory assignment, then the write in the
\* atomic scope
AddMetadata(d, b, tag, metadata) ==
    IF ~Bound(d, {"conn", "run_id"})
    THEN [d |-> [d EXCEPT !.metadata = [t \in DOMAIN @ \cup {tag} |->
                                          IF t = tag THEN metadata ELSE @[t]]],
          b |-> b,
          exc |-> "AttributeError"]
    ELSE [d |-> [d EXCEPT !.metadata = [t \in DOMAIN @ \cup {tag} |->
                                          IF t = tag THEN metadata ELSE @[t]]],
          b |-> AddMetaData(b, tag, metadata),
          exc |-> "None"]

\* DataSet.add_snapshot(snapshot, overwrite): the text is written when the
\* run has no snapshot or overwrite is set; otherwise a warning is logged
AddSnapshot(d, b, snapshot, overwrite) ==
    IF RetrieveMetaData(b).snapshot = NoneVal \/ overwrite
    THEN IF ~Bound(d, {"conn", "run_id"})
         THEN [d |-> d, b |-> b, exc |-> "AttributeError"]
         ELSE [d |-> d, b |-> AddMetaData(b, "snapshot", snapshot),
               exc |-> "None"]
    ELSE [d |-> d, b |-> b, exc |-> "None"]

\* DataSet.add_metadata when add_meta_data raises inside the atomic scope:
\* the assignment to the in-memory mapping has been made, the scope rolls the
\* backend back and re-raises
AddMetadataWriteFails(d, b, tag, metadata) ==
    [d |-> [d EXCEPT !.metadata = [t \in DOMAIN @ \cup {tag} |->
                                      IF t = tag THEN metadata ELSE @[t]]],
     b |-> b,
     exc |-> "RuntimeError"]

\* the outcomes of add_metadata: once the scope is entered the durable write
\* succeeds or fails
AddMetadataOutcomes(d, b, tag, metadata) ==
    IF Bound(d, {"conn", "run_id"})
    THEN {AddMetadata(d, b, tag, metadata),
          AddMetadataWriteFails(d, b, tag, metadata)}
    ELSE {AddMetadata(d, b, tag, metadata)}

\* ------------------------------------------------- DataSet, results
RECURSIVE SetpointCheck(_, _, _)
\* the loop over results.keys() in add_result, from position i on: the first
\* exception it raises, or "None"
SetpointCheck(d, results, i) ==
    IF i > Len(results) THEN "None"
    ELSE LET param == results[i][1] IN
         IF ~HasParam(d, param) THEN "KeyError"
         ELSE IF ParamSpecOf(d, param).depends_on # <<>>
                 /\ LET deps == Split(ParamSpecOf(d, param).depends_on, CommaSpace)
                    IN  \E k \in 1..Len(deps) : ~HasKey(results, deps[k])
         THEN "ValueError"
         ELSE SetpointCheck(d, results, i + 1)

\* DataSet.add_result(results)
AddResult(d, b, results) ==
    LET s == StartIfNotStarted(d, b)
        chk == SetpointCheck(s.d, results, 1)
    IN  IF s.exc # "None" THEN s
        ELSE IF chk # "None" THEN [d |-> s.d, b |-> s.b, exc |-> chk]
        ELSE IF s.d.completed
        THEN [d |-> s.d, b |-> s.b, exc |-> "CompletedError"]
        ELSE IF ~Bound(s.d, {"data_storage_interface"})
        THEN [d |-> s.d, b |-> s.b, exc |-> "AttributeError"]
        ELSE LET st == StoreResults(s.b,
                          [i \in 1..Len(results) |->
                              <<results[i][1], <<results[i][2]>>>>])
             IN  [d |-> s.d, b |-> st.b, exc |-> st.exc]

\* DataSet.add_results(results): val is the returned index
AddResults(d, b, results) ==
    LET s == StartIfNotStarted(d, b) IN
    IF s.exc # "None"
    THEN [d |-> s.d, b |-> s.b, exc |-> s.exc, val |-> <<>>]
    ELSE IF Len(results) = 0
    THEN [d |-> s.d, b |-> s.b, exc |-> "TypeError", val |-> <<>>]
    ELSE IF ~Bound(s.d, {"conn", "table_name", "data_storage_interface"})
    THEN [d |-> s.d, b |-> s.b, exc |-> "AttributeError", val |-> <<>>]
    ELSE LET expected_keys ==
                 SetToSeq(UNION {{results[i][j][1] : j \in 1..Len(results[i])}
                                 : i \in 1..Len(results)})
             columns == [k \in 1..Len(expected_keys) |->
                            <<expected_keys[k],
                              [i \in 1..Len(results) |->
                                  DictGet(results[i], expected_keys[k])]>>]
             len_before_add == Length(s.b)
             st == StoreResults(s.b, columns)
         IN  [d |-> s.d, b |-> st.b, exc |-> st.exc,
              val |-> IF st.exc = "None" THEN <<len_before_add>> ELSE <<>>]

\* DataSet.number_of_results: the value of the interface call is computed
\* and dropped, the property body has no return statement
NumberOfResults(d, b) ==
    LET n == RetrieveNumberOfResults(b)
    IN  [d |-> d, b |-> b, exc |-> "None", val |-> <<>>]

\* DataSet.__len__
DataSetLen(d, b) ==
    IF Bound(d, {"conn", "table_name"})
    THEN [d |-> d, b |-> b, exc |-> "None", val |-> <<Length(b)>>]
    ELSE [d |-> d, b |-> b, exc |-> "AttributeError", val |-> <<>>]

\* the thirteen persistent traits of a DataSet object with GUID guid,
\* in-memory state d and run record b
PersistentTraits(guid, d, b) ==
    [name |-> RetrieveMetaData(b).name,
     guid |-> guid,
     number_of_results |-> NumberOfResults(d, b).val,
     parameters |-> Parameters(d),
     paramspecs |-> [i \in 1..Len(d.description) |->
                        <<d.description[i].name, d.description[i]>>],
     exp_name |-> RetrieveMetaData(b).exp_name,
     sample_name |-> RetrieveMetaData(b).sample_name,
     completed |-> d.completed,
     snapshot |-> RetrieveMetaData(b).snapshot,
     run_timestamp_raw |-> RetrieveMetaData(b).run_started,
     description |-> d.description,
     completed_timestamp_raw |-> RetrieveMetaData(b).run_completed,
     metadata |-> d.metadata]

\* DataSet.persistent_traits, in the order of the tuple
persistent_traits ==
    <<"name", "guid", "number_of_results", "parameters", "paramspecs",
      "exp_name", "sample_name", "completed", "snapshot", "run_timestamp_raw",
      "description", "completed_timestamp_raw", "metadata">>

\* isinstance(other, DataSet): a DataSet object has a GUID and its in-memory
\* state, any other value is a record without them
IsDataSet(other) == {"guid", "d"} \subseteq DOMAIN other

\* the values of the traits of a DataSet object, looked up with getattr
TraitsOf(o, rs) == PersistentTraits(o.guid, o.d, rs[o.guid])

\* the_same_dataset_as that returns False at a mismatch, whatever the GUIDs
TheSameDatasetAs_NeverRaises(self, other, rs) ==
    IF ~IsDataSet(other) THEN "False"
    ELSE IF \E k \in 1..Len(persistent_traits) :
                TraitsOf(self, rs)[persistent_traits[k]]
                    # TraitsOf(other, rs)[persistent_traits[k]]
         THEN "False"
         ELSE "True"

RECURSIVE CompareTraits(_, _, _, _)
\* the loop of the_same_dataset_as over persistent_traits, from position k
\* on: the first mismatch raises when the GUIDs match and returns False when
\* they do not
CompareTraits(mine, theirs, guids_match, k) ==
    IF k > Len(persistent_traits) THEN "True"
    ELSE IF mine[persistent_traits[k]] # theirs[persistent_traits[k]]
         THEN IF guids_match THEN "RuntimeError" ELSE "False"
         ELSE CompareTraits(mine, theirs, guids_match, k + 1)

\* self.the_same_dataset_as(other): "True", "False", or "RuntimeError" when
\* the GUIDs match and another trait differs
TheSameDatasetAs(self, other, rs) ==
    IF ~IsDataSet(other) THEN "False"
    ELSE CompareTraits(TraitsOf(self, rs), TraitsOf(other, rs),
                       self.guid = other.guid, 1)

\* Python's "sub in s" on strings: sub occurs in s as a substring
StrIn(sub, s) ==
    sub = <<>> \/ \E i \in 1..Len(s) : StartsAt(s, sub, i)

\* sqlite_base.get_values and get_setpoints: a query on a name that is not a
\* column of the results table is refused by the engine
QueryColumn(b, param_name) ==
    IF param_name \in b.columns THEN "None" ELSE "OperationalError"

\* DataSet.get_values(param_name): the exception raised and its message
GetValues(d, b, param_name) ==
    IF ~StrIn(param_name, Parameters(d))
    THEN [exc |-> "ValueError", msg |-> "Unknown parameter"]
    ELSE IF ~Bound(d, {"conn", "table_name"})
    THEN [exc |-> "AttributeError", msg |-> ""]
    ELSE [exc |-> QueryColumn(b, param_name), msg |-> ""]

\* DataSet.get_setpoints(param_name)
GetSetpoints(d, b, param_name) ==
    IF ~StrIn(param_name, Parameters(d))
    THEN [exc |-> "ValueError", msg |-> "Unknown parameter"]
    ELSE IF ~HasParam(d, param_name)
    THEN [exc |-> "KeyError", msg |-> ""]
    ELSE IF ParamSpecOf(d, param_name).depends_on = <<>>
    THEN [exc |-> "ValueError", msg |-> "has no setpoints"]
    ELSE IF ~Bound(d, {"conn", "table_name"})
    THEN [exc |-> "AttributeError", msg |-> ""]
    ELSE [exc |-> QueryColumn(b, param_name), msg |-> ""]

\* DataSet.modify_result(index, results)
ModifyResult(d, b, index, results) ==
    IF d.completed THEN [d |-> d, b |-> b, exc |-> "CompletedError"]
    ELSE IF \E i \in 1..Len(results) : ~HasParam(d, results[i][1])
    THEN [d |-> d, b |-> b, exc |-> "ValueError"]
    ELSE IF ~Bound(d, {"conn", "table_name"})
    THEN [d |-> d, b |-> b, exc |-> "AttributeError"]
    ELSE [d |-> d, b |-> ModifyValues(b, index, results), exc |-> "None"]

RECURSIVE Flatten(_)
\* [item for sublist in lists for item in sublist]
Flatten(lists) ==
    IF Len(lists) = 0 THEN <<>> ELSE lists[1] \o Flatten(Tail(lists))

\* dict.values()
DictValues(dict) == [i \in 1..Len(dict) |-> dict[i][2]]

\* modify_results validating the parameter names before the completed check
ModifyResults_NamesFirst(d, b, start_index, updates) ==
    LET flattened_keys ==
            Flatten([i \in 1..Len(updates) |-> DictKeys(updates[i])])
        flattened_values ==
            Flatten([i \in 1..Len(updates) |-> DictValues(updates[i])])
    IN  IF \E k \in 1..Len(flattened_keys) : ~HasParam(d, flattened_keys[k])
        THEN [d |-> d, b |-> b, exc |-> "ValueError"]
        ELSE IF d.completed THEN [d |-> d, b |-> b, exc |-> "CompletedError"]
        ELSE IF ~Bound(d, {"conn", "table_name"})
        THEN [d |-> d, b |-> b, exc |-> "AttributeError"]
        ELSE [d |-> d,
              b |-> ModifyManyValues(b, start_index, flattened_keys,
                                     flattened_values),
              exc |-> "None"]

\* DataSet.modify_results(start_index, updates): the updates reach the
\* backend as the flat list of their keys and the flat list of their values
ModifyResults(d, b, start_index, updates) ==
    LET flattened_keys ==
            Flatten([i \in 1..Len(updates) |-> DictKeys(updates[i])])
        flattened_values ==
            Flatten([i \in 1..Len(updates) |-> DictValues(updates[i])])
    IN  IF d.completed THEN [d |-> d, b |-> b, exc |-> "CompletedError"]
        ELSE IF \E k \in 1..Len(flattened_keys) :
                    ~HasParam(d, flattened_keys[k])
        THEN [d |-> d, b |-> b, exc |-> "ValueError"]
        ELSE IF ~Bound(d, {"conn", "table_name"})
        THEN [d |-> d, b |-> b, exc |-> "AttributeError"]
        ELSE [d |-> d,
              b |-> ModifyManyValues(b, start_index, flattened_keys,
                                     flattened_values),
              exc |-> "None"]

\* DataSet.add_parameter_values(spec, values): the backend writes happen in
\* one atomic scope, undone when add_results raises inside it
AddParameterValues(d, b, spec, values) ==
    IF ~Bound(d, {"conn", "table_name"})
    THEN [d |-> d, b |-> b, exc |-> "AttributeError"]
    ELSE IF Length(b) > 0 /\ Len(values) # Length(b)
    THEN [d |-> d, b |-> b, exc |-> "ValueError"]
    ELSE LET r == AddResults(d, BackendAddParameter(b, spec),
                             [i \in 1..Len(values) |->
                                 <<<<spec.name, values[i]>>>>])
         IN  [d |-> r.d,
              b |-> IF r.exc = "None" THEN r.b ELSE b,
              exc |-> r.exc]

\* ------------------------------------------------------------ _Subscriber
\* DataSet.get_parameters: the names of the parameters of the description,
\* in schema order
GetParameterNames(d, b) ==
    [i \in 1..Len(d.description) |-> d.description[i].name]

\* _Subscriber.__init__ followed by Thread.start(): the object and its
\* thread at the head of _loop.  The thread's position (pc), the drain it is
\* in (final: the one after completion) and its result_list are the thread's
\* own; log lists the callback invocations, pushed counts the rows put on
\* the queue and len_at_sub is the row count at subscription.  The callback
\* is the caller's: one that appends its arguments to log ("append"), or
\* one that does nothing ("pass").  dataSet is the DataSet the subscriber
\* was made for (self.dataSet): 0 for ds, i for objs[i].
NewSubscriber(d, b, callback, min_queue_length) ==
    [dataSet |-> 0,
     callback |-> callback,
     min_queue_length |-> min_queue_length,
     data_set_len |-> DataSetLen(d, b).val[1],
     data_queue |-> <<>>,
     queue_length |-> 0,
     stop_signal |-> FALSE,
     parameters |-> GetParameterNames(d, b),
     pc |-> "top",
     final |-> FALSE,
     result_list |-> <<>>,
     log |-> <<>>,
     pushed |-> 0,
     len_at_sub |-> DataSetLen(d, b).val[1]]

\* the trigger's SELECT callback(NEW.p1, NEW.p2, ...): the arguments made of
\* the new row
TriggerArgs(sub, row) ==
    [i \in 1..Len(sub.parameters) |-> row[sub.parameters[i]]]

\* _cache_data_to_queue, first statement: data_queue.put(args)
CachePut(sub, args) ==
    [sub EXCEPT !.data_queue = Append(@, args), !.pushed = @ + 1]

\* _cache_data_to_queue, second statement: _data_set_len += 1
CacheCountTotal(sub) == [sub EXCEPT !.data_set_len = @ + 1]

\* _cache_data_to_queue, third statement: _queue_length += 1 stores the
\* value loaded earlier, plus one
CacheStoreQueueLength(sub, loaded) == [sub EXCEPT !.queue_length = loaded + 1]

\* _exhaust_queue: one queue.get(block=False) that finds a row, appended to
\* result_list
QueueGet(sub, result_list) ==
    [sub |-> [sub EXCEPT !.data_queue = Tail(@)],
     result_list |-> Append(result_list, Head(sub.data_queue))]

\* _call_callback_on_queue_data after the drain:
\* callback(result_list, self._data_set_len, self.state), made by the loop
\* ("loop"), by the drain after completion ("final") or by done_callback
\* ("done"); the entry also notes the rows pushed so far, the completed
\* flag of the DataSet, whether the run has a completion timestamp and the
\* stop flag of the subscriber at the invocation
CallCallback(sub, result_list, by, d, b) ==
    IF sub.callback = "append"
    THEN [sub EXCEPT !.log = Append(@, [batch |-> result_list,
                                        total |-> sub.data_set_len,
                                        by |-> by,
                                        pushed |-> sub.pushed,
                                        completed |-> d.completed,
                                        marked |-> b.run_completed # NoneVal,
                                        stopped |-> sub.stop_signal])]
    ELSE sub

\* _Subscriber.schedule_stop
ScheduleStop(sub) ==
    IF ~sub.stop_signal THEN [sub EXCEPT !.stop_signal = TRUE] ELSE sub

\* sqlite_base.remove_trigger
RemoveTrigger(trig, id) == trig \ {id}

\* the triggers listed in sqlite_master
AllTriggers(trig) == trig

\* unsubscribe that stops the thread and leaves the trigger in the backend
UnsubscribeEnter_KeepTrigger(trig, ss, id) ==
    [triggers |-> trig,
     subs |-> [ss EXCEPT ![id] = ScheduleStop(@)]]

\* DataSet.unsubscribe up to the join: the trigger is removed and the stop
\* is scheduled
UnsubscribeEnter(trig, ss, id) ==
    [triggers |-> RemoveTrigger(trig, id),
     subs |-> [ss EXCEPT ![id] = ScheduleStop(@)]]

RECURSIVE RemoveTriggers(_, _)
\* the loop of unsubscribe_all over the fetched trigger names
RemoveTriggers(trig, names) ==
    IF names = {} THEN trig
    ELSE LET n == CHOOSE x \in names : TRUE
         IN  RemoveTriggers(RemoveTrigger(trig, n), names \ {n})

\* unsubscribe_all that removes no trigger
UnsubscribeAllEnter_KeepTriggers(trig) == trig

\* DataSet.unsubscribe_all up to its loop over the subscribers: every trigger
\* of the catalog is removed
UnsubscribeAllEnter(trig) == RemoveTriggers(trig, AllTriggers(trig))

\* ------------------------------------------------------------ inputs
\* names used by the lifecycle scenario
RowNames == {<<"x">>, <<"y">>}
\* x, y, and both with depends_on = x
LifecycleSpecs ==
    {ParamSpec(n, <<>>, d) : n \in RowNames, d \in {<<>>, <<<<"x">>>>}}
\* reference lists: no name, one name, two different names
RefLists ==
    {<<>>} \cup {<<n>> : n \in Names}
           \cup {<<<<"x">>, <<"y">>>>, <<<<"x">>, <<"x", "y">>>>,
                 <<<<"y">>, <<"x", "y">>>>}
ParamSpecs == {ParamSpec(n, i, d) : n \in Names, i \in RefLists, d \in RefLists}

\* add_result: every insertion order of the keys
ResultDicts == DictsOver(RowNames, Values) \ {<<>>}
\* add_results: one insertion order per key set
BatchDicts == {dd \in ResultDicts :
                 DictKeys(dd) = SetToSeq({dd[i][1] : i \in 1..Len(dd)})}
ResultLists == UNION {[1..n -> BatchDicts] : n \in 0..MaxBatch}
ValueLists == UNION {[1..n -> Values] : n \in 0..MaxBatch}
Indices == 0..MaxRows
UpdateDicts == {<<<<n, v>>>> : n \in {<<"x">>}, v \in Values \cup {NoneVal}}
                  \cup {<<<<(<<"y">>), "0">>>>}
\* lists of one and two updates of one key; an update without a key before
\* an update of one key; one update of two keys
UpdateLists == {<<u>> : u \in UpdateDicts}
                  \cup {<<u, w>> : u \in UpdateDicts, w \in UpdateDicts}
                  \cup {<<<<>>, u>> : u \in UpdateDicts}
                  \cup {<<<<<<(<<"x">>), "0">>, <<(<<"y">>), "0">>>>>>}
\* add_parameters: the lists of specs
SpecLists == {<<ParamSpec(<<"x">>, <<>>, <<>>)>>,
              <<ParamSpec(<<"x">>, <<>>, <<>>), ParamSpec(<<"y">>, <<>>, <<>>)>>}
\* add_snapshot: the raw JSON dumps of snapshot documents
Snapshots == {JsonDumps("s1")}
StartIndices == {0, 1}

\* ------------------------------------------------------------- actions
\* one DataSet object is in use at a time: the one constructed without a
\* GUID, until a DataSet constructed from the run's GUID takes its place
\* a backend without runs
NoRuns == [g \in {} |-> CreateRun]

\* the caller's thread between two method calls
Idle ==
    [pc |-> "idle", op |-> "", todo |-> {}, cur |-> 0, row |-> <<>>,
     loaded |-> 0, order |-> <<>>, result_list |-> <<>>]

Init ==
    /\ db = CreateRun
    /\ ds = InitFromMetaData("fresh", CreateRun)
    /\ ret = Ret("__init__", "None")
    /\ subs = <<>>
    /\ registry = <<>>
    /\ triggers = {}
    /\ main = Idle
    /\ runs = NoRuns
    /\ objs = <<>>

\* the outcome r of a call on the DataSet, on a table of at most max rows
ApplyBounded(op, r, max) ==
    /\ Len(r.b.rows) <= max
    /\ ds' = r.d
    /\ db' = r.b
    /\ ret' = RetVal(op, r.exc, IF "val" \in DOMAIN r THEN r.val ELSE <<>>)
    /\ UNCHANGED <<subs, registry, triggers, main, runs, objs>>

Apply(op, r) == ApplyBounded(op, r, MaxRows)

\* DataSet(guid=...): ValueError when no run has the GUID
LoadByGuid ==
    \E guid \in Guids :
        /\ IF RunExists(db, guid)
           THEN /\ ds' = InitFromMetaData("guid", db)
                /\ ret' = Ret("__init__", "None")
           ELSE /\ ds' = ds
                /\ ret' = Ret("__init__", "ValueError")
        /\ UNCHANGED <<db, subs, registry, triggers, main, runs, objs>>

\* the groups of attributes the user of the object assigns together: those
\* of the run in the backend, and subscribers = {}
BindSets == {BackendAttrs, {"subscribers"}}

\* ds.conn = ...; ds.run_id = ...; ... : the user assigns a group of the
\* attributes __init__ leaves unassigned
BindFrom(sets) ==
    \E A \in sets :
        /\ ~Bound(ds, A)
        /\ ds' = BindAttrs(ds, A)
        /\ ret' = Ret("__setattr__", "None")
        /\ UNCHANGED <<db, subs, registry, triggers, main, runs, objs>>

\* all of them at once
DoBind == BindFrom({UnassignedAttrs})

\* the attributes of the run alone
DoBindBackend == BindFrom({BackendAttrs})

\* one group at a time
DoBindGroup == BindFrom(BindSets)

AddParameterFrom(S) ==
    \E spec \in S : Apply("add_parameter", AddParameter(ds, db, spec))

DoAddParameter == AddParameterFrom(LifecycleSpecs)

DoAddParameters ==
    \E specs \in SpecLists :
        Apply("add_parameters", AddParameters(ds, db, specs))

DoToggleDebug == Apply("toggle_debug", ToggleDebug(ds, db))

DoAddMetadata ==
    \E tag \in Tags, value \in MetaValues :
        Apply("add_metadata", AddMetadata(ds, db, tag, value))

AddSnapshotFrom(S) ==
    \E snapshot \in S, overwrite \in BOOLEAN :
        Apply("add_snapshot", AddSnapshot(ds, db, snapshot, overwrite))

DoAddSnapshot == AddSnapshotFrom(Snapshots)

DoSetCompleted ==
    \E value \in BOOLEAN :
        Apply("completed.setter", SetCompleted(ds, db, value))

DoMarkComplete == Apply("mark_complete", MarkComplete(ds, db))

DoAddResult ==
    \E results \in ResultDicts :
        Apply("add_result", AddResult(ds, db, results))

DoAddResults ==
    \E results \in ResultLists :
        Apply("add_results", AddResults(ds, db, results))

DoModifyResult ==
    \E index \in Indices, results \in UpdateDicts :
        Apply("modify_result", ModifyResult(ds, db, index, results))

DoModifyResults ==
    \E index \in StartIndices, updates \in UpdateLists :
        Apply("modify_results", ModifyResults(ds, db, index, updates))

DoAddParameterValues ==
    \E spec \in LifecycleSpecs, values \in ValueLists :
        Apply("add_parameter_values", AddParameterValues(ds, db, spec, values))

Next ==
    \/ LoadByGuid
    \/ DoBind
    \/ DoAddParameter
    \/ DoAddParameters
    \/ DoToggleDebug
    \/ DoAddMetadata
    \/ DoAddSnapshot
    \/ DoSetCompleted
    \/ DoMarkComplete
    \/ DoAddResult
    \/ DoAddResults
    \/ DoModifyResult
    \/ DoModifyResults
    \/ DoAddParameterValues

Spec == Init /\ [][Next]_vars

\* the deprecated rewriting of stored rows: a table is prepared, the run is
\* completed and reopened, and modify_result and modify_results are called
\* in every state on the way
NextModify ==
    \/ LoadByGuid
    \/ DoBind
    \/ DoAddParameter
    \/ DoSetCompleted
    \/ DoMarkComplete
    \/ DoAddResult
    \/ DoModifyResult
    \/ DoModifyResults

SpecModify == Init /\ [][NextModify]_vars

\* schema declaration with every ParamSpec over Names; the only result call
\* is add_result, which writes the descriptor at the start transition
DoAddAnyParameter == AddParameterFrom(ParamSpecs)

NextSchema ==
    \/ LoadByGuid
    \/ DoBindBackend
    \/ DoAddAnyParameter
    \/ DoAddParameters
    \/ DoAddResult

SpecSchema == Init /\ [][NextSchema]_vars

\* the row-count scenario: x, y depending on x, xy depending on x and y;
\* rows are added one by one and in batches, and counted
RowSpecs ==
    {ParamSpec(<<"x">>, <<>>, <<>>),
     ParamSpec(<<"y">>, <<>>, <<<<"x">>>>),
     ParamSpec(<<"x", "y">>, <<>>, <<<<"x">>, <<"y">>>>)}
RowLists == UNION {[1..n -> BatchDicts] : n \in 0..RowsBatch}
\* every value map over Names, in every insertion order of its keys
AllResultDicts == DictsOver(Names, Values) \ {<<>>}

RowsAddParameter ==
    \E spec \in RowSpecs :
        ApplyBounded("add_parameter", AddParameter(ds, db, spec), RowsMax)

RowsSetCompleted ==
    \E value \in BOOLEAN :
        ApplyBounded("completed.setter", SetCompleted(ds, db, value), RowsMax)

RowsMarkComplete ==
    ApplyBounded("mark_complete", MarkComplete(ds, db), RowsMax)

RowsAddResult ==
    \E results \in ResultDicts :
        ApplyBounded("add_result", AddResult(ds, db, results), RowsMax)

RowsAddResults ==
    \E results \in RowLists :
        ApplyBounded("add_results", AddResults(ds, db, results), RowsMax)

RowsNumberOfResults ==
    ApplyBounded("number_of_results", NumberOfResults(ds, db), RowsMax)

RowsLen == ApplyBounded("__len__", DataSetLen(ds, db), RowsMax)

NextRows ==
    \/ DoBindGroup
    \/ RowsAddParameter
    \/ RowsSetCompleted
    \/ RowsMarkComplete
    \/ RowsAddResult
    \/ RowsAddResults
    \/ RowsNumberOfResults
    \/ RowsLen

SpecRows == Init /\ [][NextRows]_vars

\* --------------------------------------------- subscribers and threads
\* A DataSet with the parameter x, its subscribers and their threads.  The
\* caller's thread (main) runs one DataSet method at a time; a method that
\* runs code of a subscriber (the trigger's callback during an insert,
\* done_callback during mark_complete) or waits for a thread (join) takes
\* several steps, between which the subscriber threads run.
SubParam == ParamSpec(<<"x">>, <<>>, <<>>)
MinCounts == 1..MaxMinCount
SubIds == 1..MaxSubs
\* the value the caller writes in its k-th row is k - 1
NextValue(b) == ToString(Len(b.rows))

\* ds = DataSet(); ds.completed = False
InitSub ==
    LET r == SetCompleted(InitFromMetaData("fresh", CreateRun), CreateRun,
                          FALSE)
    IN  /\ ds = r.d
        /\ db = r.b
        /\ ret = Ret("completed.setter", "None")
        /\ subs = <<>>
        /\ registry = <<>>
        /\ triggers = {}
        /\ main = Idle
        /\ runs = NoRuns
        /\ objs = <<>>

Return(op, exc) ==
    /\ ret' = Ret(op, exc)
    /\ main' = Idle

\* ds.completed = False, on the completed run
SubSetNotCompleted ==
    /\ main.pc = "idle"
    /\ LET r == SetCompleted(ds, db, FALSE)
       IN  ds' = r.d /\ db' = r.b
    /\ Return("completed.setter", "None")
    /\ UNCHANGED <<subs, registry, triggers>>

\* the scenario: the caller uses the DataSet once it has declared x, or
\* right after construction
SubScenario == HasParam(ds, <<"x">>) \/ ds.attrs = {}

\* the caller assigns the attributes __init__ leaves unassigned
SubBind ==
    /\ main.pc = "idle"
    /\ ~Bound(ds, UnassignedAttrs)
    /\ ds' = BindAttrs(ds, UnassignedAttrs)
    /\ ret' = Ret("__setattr__", "None")
    /\ UNCHANGED <<db, subs, registry, triggers, main>>

\* ds.add_parameter(x), until x is declared
SubAddParameter ==
    /\ main.pc = "idle"
    /\ ~HasParam(ds, <<"x">>)
    /\ LET r == AddParameter(ds, db, SubParam)
       IN  /\ ds' = r.d
           /\ db' = r.b
           /\ Return("add_parameter", r.exc)
    /\ UNCHANGED <<subs, registry, triggers>>

\* DataSet.subscribe(callback, min_count = n), at most max times:
\* _Subscriber.__init__ reads table_name and conn of the DataSet and
\* installs the trigger; the entry in self.subscribers and the start of the
\* thread follow
\* (op: the method the caller called, subscribe or subscribe_from_config)
SubscribeAs(op, max, callback, counts) ==
    \E n \in counts :
        /\ main.pc = "idle"
        /\ SubScenario
        /\ Len(subs) < max
        /\ IF ~Bound(ds, {"table_name", "conn"})
           THEN /\ Return(op, "AttributeError")
                /\ UNCHANGED <<subs, registry, triggers>>
           ELSE IF ~Bound(ds, {"subscribers"})
           THEN /\ subs' = Append(subs, [NewSubscriber(ds, db, callback, n)
                                            EXCEPT !.pc = "unstarted"])
                /\ triggers' = triggers \cup {Len(subs) + 1}
                /\ registry' = registry
                /\ Return(op, "AttributeError")
           ELSE /\ subs' = Append(subs, NewSubscriber(ds, db, callback, n))
                /\ registry' = Append(registry, Len(subs) + 1)
                /\ triggers' = triggers \cup {Len(subs) + 1}
                /\ Return(op, "None")
        /\ UNCHANGED <<ds, db>>

SubscribeWith(max, callback, counts) ==
    SubscribeAs("subscribe", max, callback, counts)

\* qcodes.config.subscription.subscribers: the configured subscribers by
\* name, each with the min_count of its subscription_kwargs
SubscriberConfig == [name \in {"each_row"} |-> DefaultMinCount]
\* the names subscribe_from_config is called with
SubscriberNames == {"each_row", "unknown"}

\* DataSet.subscribe_from_config(name): RuntimeError for a name the config
\* does not have; otherwise the factory makes the callback and the method
\* ends in self.subscribe(**kwargs)
SubscribeFromConfig(max, callback) ==
    \E name \in SubscriberNames :
        IF name \notin DOMAIN SubscriberConfig
        THEN /\ main.pc = "idle"
             /\ SubScenario
             /\ Return("subscribe_from_config", "RuntimeError")
             /\ UNCHANGED <<ds, db, subs, registry, triggers>>
        ELSE SubscribeAs("subscribe_from_config", max, callback,
                         {SubscriberConfig[name]})

SubSubscribe == SubscribeWith(MaxSubs, "append", MinCounts)

SubSubscribeFromConfig == SubscribeFromConfig(MaxSubs, "append")

\* DataSet.add_result({'x': v}) on a table of less than max rows: the insert
\* fires the triggers installed on the results table, fired
AddResultFiring(max, fired) ==
    /\ main.pc = "idle"
    /\ SubScenario
    /\ Len(db.rows) < max
    /\ LET r == AddResult(ds, db, <<<<(<<"x">>), NextValue(db)>>>>)
       IN  /\ ds' = r.d
           /\ db' = r.b
           /\ IF r.exc = "None" /\ fired # {}
              THEN /\ main' = [Idle EXCEPT !.pc = "put", !.todo = fired,
                                           !.row = r.b.rows[Len(r.b.rows)]]
                   /\ ret' = ret
              ELSE Return("add_result", r.exc)
    /\ UNCHANGED <<subs, registry, triggers>>

\* with one DataSet every installed trigger is on its results table
AddResultUpTo(max) == AddResultFiring(max, triggers)

SubAddResult == AddResultUpTo(SubRows)

\* a trigger fires: _cache_data_to_queue puts the row on the queue
CachePutStep ==
    /\ main.pc = "put"
    /\ \E id \in main.todo :
          /\ subs' = [subs EXCEPT
                         ![id] = CachePut(@, TriggerArgs(@, main.row))]
          /\ main' = [main EXCEPT !.pc = "count", !.cur = id]
    /\ UNCHANGED <<ds, db, ret, registry, triggers>>

\* _data_set_len += 1
CacheCountStep ==
    /\ main.pc = "count"
    /\ subs' = [subs EXCEPT ![main.cur] = CacheCountTotal(@)]
    /\ main' = [main EXCEPT !.pc = "load"]
    /\ UNCHANGED <<ds, db, ret, registry, triggers>>

\* _queue_length += 1: the load of _queue_length
CacheLoadStep ==
    /\ main.pc = "load"
    /\ main' = [main EXCEPT !.pc = "store",
                            !.loaded = subs[main.cur].queue_length]
    /\ UNCHANGED <<ds, db, ret, subs, registry, triggers>>

\* the store of _queue_length; after the last trigger add_result returns
CacheStoreStep ==
    /\ main.pc = "store"
    /\ subs' = [subs EXCEPT
                   ![main.cur] = CacheStoreQueueLength(@, main.loaded)]
    /\ IF main.todo = {main.cur}
       THEN Return("add_result", "None")
       ELSE /\ main' = [main EXCEPT !.pc = "put", !.todo = @ \ {main.cur},
                                    !.cur = 0, !.loaded = 0]
            /\ ret' = ret
    /\ UNCHANGED <<ds, db, registry, triggers>>

\* DataSet.mark_complete enters the completed setter:
\* self._completed = value (line 501).  The subscriber threads read the
\* flag from here on, before the run is marked in the backend.
SubMarkComplete ==
    /\ main.pc = "idle"
    /\ \A i \in 1..Len(subs) : Len(subs[i].log) < MaxLog
    /\ ds' = [ds EXCEPT !.completed = TRUE]
    /\ main' = [Idle EXCEPT !.pc = "mark_run", !.op = "mark_complete"]
    /\ UNCHANGED <<db, ret, subs, registry, triggers>>

\* the rest of the setter and the head of the loop of mark_complete:
\* mark_run_complete(self.conn, self.run_id) (line 503), then
\* self.subscribers.values() (line 510)
MarkRunStep ==
    /\ main.pc = "mark_run"
    /\ IF ~Bound(ds, {"conn", "run_id"})
       THEN /\ db' = db
            /\ Return("mark_complete", "AttributeError")
       ELSE /\ db' = MarkRunComplete(db)
            /\ IF ~Bound(ds, {"subscribers"})
               THEN Return("mark_complete", "AttributeError")
               ELSE IF registry = <<>>
               THEN Return("mark_complete", "None")
               ELSE /\ main' = [Idle EXCEPT !.pc = "done_get",
                                            !.order = registry]
                    /\ ret' = ret
    /\ UNCHANGED <<ds, subs, registry, triggers>>

\* done_callback in the caller's thread: one get of _exhaust_queue
DoneGetStep ==
    /\ main.pc = "done_get"
    /\ LET id == Head(main.order) IN
       IF subs[id].data_queue # <<>>
       THEN LET g == QueueGet(subs[id], main.result_list)
            IN  /\ subs' = [subs EXCEPT ![id] = g.sub]
                /\ main' = [main EXCEPT !.result_list = g.result_list]
       ELSE /\ main' = [main EXCEPT !.pc = "done_call"]
            /\ subs' = subs
    /\ UNCHANGED <<ds, db, ret, registry, triggers>>

\* done_callback: the callback invocation; after the last subscriber
\* mark_complete returns
DoneCallStep ==
    /\ main.pc = "done_call"
    /\ subs' = [subs EXCEPT ![Head(main.order)] =
                   CallCallback(@, main.result_list, "done", ds, db)]
    /\ IF Len(main.order) = 1
       THEN Return("mark_complete", "None")
       ELSE /\ main' = [main EXCEPT !.pc = "done_get", !.order = Tail(@),
                                    !.result_list = <<>>]
            /\ ret' = ret
    /\ UNCHANGED <<ds, db, registry, triggers>>

\* DataSet.unsubscribe(uuid): KeyError for an identifier not in the registry
UnsubscribeAmong(ids) ==
    \E id \in ids :
        /\ main.pc = "idle"
        /\ IF ~Bound(ds, {"conn", "subscribers"})
           THEN /\ Return("unsubscribe", "AttributeError")
                /\ UNCHANGED <<subs, triggers>>
           ELSE IF InSeq(id, registry)
           THEN LET u == UnsubscribeEnter(triggers, subs, id)
                IN  /\ triggers' = u.triggers
                    /\ subs' = u.subs
                    /\ main' = [Idle EXCEPT !.pc = "join", !.order = <<id>>,
                                            !.op = "unsubscribe"]
                    /\ ret' = ret
           ELSE /\ Return("unsubscribe", "KeyError")
                /\ UNCHANGED <<subs, triggers>>
        /\ UNCHANGED <<ds, db, registry>>

SubUnsubscribe == UnsubscribeAmong(SubIds)

\* DataSet.unsubscribe_all: the triggers are removed, then the subscribers
\* are stopped and joined one after the other; an AttributeError on
\* self.subscribers is raised inside the atomic scope, which undoes the
\* removals
SubUnsubscribeAll ==
    /\ main.pc = "idle"
    /\ IF ~Bound(ds, {"conn", "subscribers"})
       THEN /\ triggers' = triggers
            /\ Return("unsubscribe_all", "AttributeError")
       ELSE /\ triggers' = UnsubscribeAllEnter(triggers)
            /\ IF registry = <<>>
               THEN Return("unsubscribe_all", "None")
               ELSE /\ main' = [Idle EXCEPT !.pc = "stop", !.order = registry,
                                            !.op = "unsubscribe_all"]
                    /\ ret' = ret
    /\ UNCHANGED <<ds, db, subs, registry>>

\* sub.schedule_stop() in the loop of unsubscribe_all
StopStep ==
    /\ main.pc = "stop"
    /\ subs' = [subs EXCEPT ![Head(main.order)] = ScheduleStop(@)]
    /\ main' = [main EXCEPT !.pc = "join"]
    /\ UNCHANGED <<ds, db, ret, registry, triggers>>

\* sub.join() returns once the thread has ended; unsubscribe then deletes
\* the registry entry and returns, unsubscribe_all goes on with the next
\* subscriber and clears the registry after the last
JoinStep ==
    /\ main.pc = "join"
    /\ subs[Head(main.order)].pc = "ended"
    /\ IF main.op = "unsubscribe"
       THEN /\ registry' = SelectSeq(registry,
                                     LAMBDA i : i # Head(main.order))
            /\ Return("unsubscribe", "None")
       ELSE IF Len(main.order) = 1
       THEN /\ registry' = <<>>
            /\ Return("unsubscribe_all", "None")
       ELSE /\ main' = [main EXCEPT !.pc = "stop", !.order = Tail(@)]
            /\ ret' = ret
            /\ registry' = registry
    /\ UNCHANGED <<ds, db, subs, triggers>>

\* ---- the thread of subscriber id: _Subscriber._loop
\* if self._stop_signal: self._clean_up(); break
ThreadTop(id) ==
    /\ subs[id].pc = "top"
    /\ subs' = [subs EXCEPT ![id].pc =
                   IF subs[id].stop_signal THEN "ended" ELSE "check"]

\* if self._queue_length >= self.min_queue_length
ThreadCheck(id) ==
    /\ subs[id].pc = "check"
    /\ subs' = [subs EXCEPT
                   ![id].pc = IF subs[id].queue_length
                                    >= subs[id].min_queue_length
                              THEN "get" ELSE "sleep",
                   ![id].final = FALSE]

\* _exhaust_queue: one get, or Empty and the end of the drain
ThreadGet(id) ==
    /\ subs[id].pc = "get"
    /\ IF subs[id].data_queue # <<>>
       THEN LET g == QueueGet(subs[id], subs[id].result_list)
            IN  subs' = [subs EXCEPT
                            ![id] = [g.sub EXCEPT
                                        !.result_list = g.result_list]]
       ELSE subs' = [subs EXCEPT ![id].pc = "call"]

\* the DataSet object a subscriber was made for, and the record of its run
DataSetOf(sub) == IF sub.dataSet = 0 THEN ds ELSE objs[sub.dataSet].d
BackendOf(sub) ==
    IF sub.dataSet = 0 THEN db ELSE runs[objs[sub.dataSet].guid]

\* the callback invocation; the drain after completion ends the loop
ThreadCall(id) ==
    /\ subs[id].pc = "call"
    /\ LET sub == subs[id]
           called == CallCallback(sub, sub.result_list,
                                  IF sub.final THEN "final" ELSE "loop",
                                  DataSetOf(sub), BackendOf(sub))
       IN  subs' = [subs EXCEPT ![id] =
                       [called EXCEPT
                           !.result_list = <<>>,
                           !.pc = IF sub.final THEN "ended" ELSE "reset"]]

\* self._queue_length = 0
ThreadReset(id) ==
    /\ subs[id].pc = "reset"
    /\ subs' = [subs EXCEPT ![id].queue_length = 0, ![id].pc = "sleep"]

\* time.sleep(...), then if self.dataSet.completed
ThreadSleep(id) ==
    /\ subs[id].pc = "sleep"
    /\ LET completed == DataSetOf(subs[id]).completed
       IN  subs' = [subs EXCEPT
                       ![id].pc = IF completed THEN "get" ELSE "top",
                       ![id].final = completed]

\* a step of the thread of subscriber id
ThreadOf(id) ==
    /\ id \in 1..Len(subs)
    /\ \/ ThreadTop(id)
       \/ ThreadCheck(id)
       \/ ThreadGet(id)
       \/ ThreadCall(id)
       \/ ThreadReset(id)
       \/ ThreadSleep(id)
    /\ UNCHANGED <<ds, db, ret, registry, triggers, main, runs, objs>>

ThreadStep == \E id \in 1..Len(subs) : ThreadOf(id)

NextSub ==
    /\ \/ SubBind
       \/ SubAddParameter
       \/ SubSetNotCompleted
       \/ SubSubscribe
       \/ SubSubscribeFromConfig
       \/ SubAddResult
       \/ CachePutStep
       \/ CacheCountStep
       \/ CacheLoadStep
       \/ CacheStoreStep
       \/ SubMarkComplete
       \/ MarkRunStep
       \/ DoneGetStep
       \/ DoneCallStep
       \/ SubUnsubscribe
       \/ SubUnsubscribeAll
       \/ StopStep
       \/ JoinStep
       \/ ThreadStep
    /\ UNCHANGED <<runs, objs>>

SpecSub == InitSub /\ [][NextSub]_vars

\* a step of the caller's thread inside a method it has called
CallerStep ==
    /\ \/ CachePutStep
       \/ CacheCountStep
       \/ CacheLoadStep
       \/ CacheStoreStep
       \/ MarkRunStep
       \/ DoneGetStep
       \/ DoneCallStep
       \/ StopStep
       \/ JoinStep
    /\ UNCHANGED <<runs, objs>>

\* the same with every thread scheduled again and again: a subscriber
\* thread that can take a step eventually takes one, and a method that has
\* been called runs on.  The caller is under no obligation to call anything.
SpecSubFair ==
    SpecSub /\ WF_vars(CallerStep) /\ \A id \in SubIds : WF_vars(ThreadOf(id))

\* the unsubscription scenario: subscribers with the default min_count and
\* a callback that does nothing; rows are inserted before and after the
\* subscribers are removed
UnsubSubscribe == SubscribeWith(UnsubSubs, "pass", {DefaultMinCount})

UnsubSubscribeFromConfig == SubscribeFromConfig(UnsubSubs, "pass")

UnsubAddResult == AddResultUpTo(UnsubRows)

UnsubUnsubscribe == UnsubscribeAmong(1..UnsubSubs)

NextUnsub ==
    /\ \/ SubBind
       \/ SubAddParameter
       \/ SubSetNotCompleted
       \/ UnsubSubscribe
       \/ UnsubSubscribeFromConfig
       \/ UnsubAddResult
       \/ CachePutStep
       \/ CacheCountStep
       \/ CacheLoadStep
       \/ CacheStoreStep
       \/ SubMarkComplete
       \/ MarkRunStep
       \/ DoneGetStep
       \/ DoneCallStep
       \/ UnsubUnsubscribe
       \/ SubUnsubscribeAll
       \/ StopStep
       \/ JoinStep
       \/ ThreadStep
    /\ UNCHANGED <<runs, objs>>

SpecUnsub == InitSub /\ [][NextUnsub]_vars

\* the scenario of unsubscribe_all: several subscribers are registered,
\* rows are inserted, the run is completed or not, and unsubscribe_all stops
\* and joins the subscribers one after the other
AllSubscribe == SubscribeWith(AllSubs, "pass", {DefaultMinCount})

AllAddResult == AddResultUpTo(AllRows)

NextUnsubAll ==
    /\ \/ SubBind
       \/ SubAddParameter
       \/ AllSubscribe
       \/ AllAddResult
       \/ CachePutStep
       \/ CacheCountStep
       \/ CacheLoadStep
       \/ CacheStoreStep
       \/ SubMarkComplete
       \/ MarkRunStep
       \/ DoneGetStep
       \/ DoneCallStep
       \/ SubUnsubscribeAll
       \/ StopStep
       \/ JoinStep
       \/ ThreadStep
    /\ UNCHANGED <<runs, objs>>

SpecUnsubAll == InitSub /\ [][NextUnsubAll]_vars

\* ------------------------------------------- several runs and objects
\* DataSet objects are constructed without a GUID (a new run) and from the
\* GUID of a run; the runs are written through any of the objects.
\* the outcome r of a call on the object at position i
ApplyObj(i, op, r) ==
    /\ Len(r.b.rows) <= GuidRows
    /\ objs' = [objs EXCEPT ![i].d = r.d]
    /\ runs' = [runs EXCEPT ![objs[i].guid] = r.b]
    /\ ret' = Ret(op, r.exc)

\* DataSet(): generate_guid, create_run, then the attributes (max: the
\* number of objects of the scenario)
NewDataSetUpTo(max) ==
    /\ Len(objs) < max
    /\ \E guid \in GenerateGuid(runs) :
          LET b == CreateRunFor(guid) IN
          /\ runs' = [g \in DOMAIN runs \cup {guid} |->
                          IF g = guid THEN b ELSE runs[g]]
          /\ objs' = Append(objs, [guid |-> guid,
                                    d |-> InitFromMetaData("fresh", b)])
          /\ ret' = Ret("__init__", "None")

GuidNewDataSet == NewDataSetUpTo(MaxObjs)

\* DataSet(guid=...): ValueError when no run has the GUID
LoadDataSetUpTo(max) ==
    /\ Len(objs) < max
    /\ \E guid \in GuidPool :
          IF guid \in DOMAIN runs /\ RunExists(runs[guid], guid)
          THEN /\ objs' = Append(objs,
                            [guid |-> guid,
                             d |-> InitFromMetaData("guid", runs[guid])])
               /\ ret' = Ret("__init__", "None")
               /\ runs' = runs
          ELSE /\ ret' = Ret("__init__", "ValueError")
               /\ UNCHANGED <<runs, objs>>

GuidLoadDataSet == LoadDataSetUpTo(MaxObjs)

\* the user of the object at position i assigns the attributes __init__
\* leaves unassigned
GuidBind ==
    \E i \in 1..Len(objs) :
        /\ ~Bound(objs[i].d, UnassignedAttrs)
        /\ objs' = [objs EXCEPT ![i].d = BindAttrs(@, UnassignedAttrs)]
        /\ ret' = Ret("__setattr__", "None")
        /\ runs' = runs

GuidAddParameter ==
    \E i \in 1..Len(objs) :
        ApplyObj(i, "add_parameter",
                 AddParameter(objs[i].d, runs[objs[i].guid], SubParam))

GuidSetCompleted ==
    \E i \in 1..Len(objs), value \in BOOLEAN :
        ApplyObj(i, "completed.setter",
                 SetCompleted(objs[i].d, runs[objs[i].guid], value))

GuidAddResult ==
    \E i \in 1..Len(objs) :
        ApplyObj(i, "add_result",
                 AddResult(objs[i].d, runs[objs[i].guid],
                           <<<<(<<"x">>), "0">>>>))

GuidAddSnapshot ==
    \E i \in 1..Len(objs), snapshot \in Snapshots, overwrite \in BOOLEAN :
        ApplyObj(i, "add_snapshot",
                 AddSnapshot(objs[i].d, runs[objs[i].guid], snapshot,
                             overwrite))

NextGuid ==
    /\ \/ GuidNewDataSet
       \/ GuidLoadDataSet
       \/ GuidBind
       \/ GuidAddParameter
       \/ GuidAddSnapshot
       \/ GuidSetCompleted
    /\ UNCHANGED <<ds, db, subs, registry, triggers, main>>

\* the backend starts without runs
SpecGuid == Init /\ [][NextGuid]_vars

\* creation and reconstruction among other runs: runs are created, their
\* schema is declared and they are completed through their objects, and
\* objects are constructed from the GUIDs of the runs
FreshNewDataSet == NewDataSetUpTo(FreshObjs)

FreshLoadDataSet == LoadDataSetUpTo(FreshObjs)

NextFresh ==
    /\ \/ FreshNewDataSet
       \/ FreshLoadDataSet
       \/ GuidBind
       \/ GuidAddParameter
       \/ GuidSetCompleted
    /\ UNCHANGED <<ds, db, subs, registry, triggers, main>>

SpecFresh == Init /\ [][NextFresh]_vars

\* ---- the operations that write the persistent traits
\* Objects of the same run are written through with add_parameter,
\* add_metadata, add_result, add_results and mark_complete.
TraitsAddMetadata ==
    \E i \in 1..Len(objs), tag \in Tags, value \in MetaValues :
        ApplyObj(i, "add_metadata",
                 AddMetadata(objs[i].d, runs[objs[i].guid], tag, value))

TraitsAddResults ==
    \E i \in 1..Len(objs) :
        ApplyObj(i, "add_results",
                 AddResults(objs[i].d, runs[objs[i].guid],
                            <<<<<<(<<"x">>), "0">>>>>>))

TraitsMarkComplete ==
    \E i \in 1..Len(objs) :
        ApplyObj(i, "mark_complete",
                 MarkComplete(objs[i].d, runs[objs[i].guid]))

NextTraits ==
    /\ \/ GuidNewDataSet
       \/ GuidLoadDataSet
       \/ GuidBind
       \/ GuidAddParameter
       \/ TraitsAddMetadata
       \/ GuidAddResult
       \/ TraitsAddResults
       \/ TraitsMarkComplete
    /\ UNCHANGED <<ds, db, subs, registry, triggers, main>>

SpecTraits == Init /\ [][NextTraits]_vars

\* ------------------------------------------------------------- loaders
\* The runs of one experiment, numbered in the order of their creation, and
\* the module-level loader functions.
\* create_run in a backend that holds the runs rs: the registry row gets the
\* next run id and the next counter of the experiment
CreateRunIn(rs, guid) ==
    [f \in DOMAIN CreateRun \cup {"run_id", "exp_id", "result_counter"} |->
        CASE f = "run_id" -> Cardinality(DOMAIN rs) + 1
          [] f = "exp_id" -> 1
          [] f = "result_counter" -> Cardinality(DOMAIN rs) + 1
          [] f = "guid" -> guid
          [] OTHER -> CreateRun[f]]

\* get_runid_from_guid: -1 when no run has the GUID
GetRunidFromGuid(rs, guid) ==
    IF guid \in DOMAIN rs THEN rs[guid].run_id ELSE -1

\* the rows of SELECT run_id FROM runs WHERE result_counter = ? AND exp_id = ?
RunIdsOfCounter(rs, counter, exp_id) ==
    {rs[g].run_id : g \in {h \in DOMAIN rs :
                              /\ rs[h].result_counter = counter
                              /\ rs[h].exp_id = exp_id}}

\* a call that raises: no object, the runs as they were
Raises(rs, exc) == {[runs |-> rs, obj |-> <<>>, exc |-> exc]}

\* DataSet(conn=conn, run_id=run_id): the constructor is given no guid, so it
\* takes the branch of a new run (generate_guid, create_run) and hands the
\* keywords to the storage interface; one outcome per GUID generate_guid can
\* return
DataSetWithKwargs(rs) ==
    {[runs |-> [g \in DOMAIN rs \cup {guid} |->
                   IF g = guid THEN CreateRunIn(rs, guid) ELSE rs[g]],
      obj |-> <<[guid |-> guid,
                 d |-> InitFromMetaData("fresh", CreateRunIn(rs, guid))]>>,
      exc |-> "None"] : guid \in GenerateGuid(rs)}

\* load_by_id(run_id); run_id is <<>> for None
load_by_id(rs, run_id) ==
    IF run_id = <<>> THEN Raises(rs, "ValueError")
    ELSE DataSetWithKwargs(rs)

\* load_by_guid(guid)
load_by_guid(rs, guid) ==
    LET run_id == GetRunidFromGuid(rs, guid)
    IN  IF run_id = -1 THEN Raises(rs, "NameError")
        ELSE DataSetWithKwargs(rs)

\* load_by_counter(counter, exp_id): one(c, 'run_id') raises unless the
\* query has exactly one row
load_by_counter(rs, counter, exp_id) ==
    IF Cardinality(RunIdsOfCounter(rs, counter, exp_id)) # 1
    THEN Raises(rs, "RuntimeError")
    ELSE DataSetWithKwargs(rs)

\* new_data_set(name, ...): DataSet(path_to_db=None, run_id=None, conn=conn,
\* name=name, ...), again without a guid
new_data_set(rs) == DataSetWithKwargs(rs)

\* a call of a loader with the outcomes outs
LoadCall(op, outs) ==
    /\ Len(objs) < MaxObjs
    /\ \E out \in outs :
          /\ runs' = out.runs
          /\ objs' = objs \o out.obj
          /\ ret' = Ret(op, out.exc)

RunIdArgs == {<<>>} \cup {<<n>> : n \in 1..MaxObjs}

\* DataSet() in the numbered registry
LoadNewDataSet == LoadCall("__init__", DataSetWithKwargs(runs))

LoadNewDataSetFunction == LoadCall("new_data_set", new_data_set(runs))

LoadById ==
    \E run_id \in RunIdArgs : LoadCall("load_by_id", load_by_id(runs, run_id))

LoadByGuidFunction ==
    \E guid \in GuidPool : LoadCall("load_by_guid", load_by_guid(runs, guid))

LoadByCounter ==
    \E counter \in 1..MaxObjs, exp_id \in {1, 2} :
        LoadCall("load_by_counter", load_by_counter(runs, counter, exp_id))

NextLoad ==
    /\ \/ LoadNewDataSet
       \/ LoadNewDataSetFunction
       \/ GuidLoadDataSet
       \/ GuidBind
       \/ LoadById
       \/ LoadByGuidFunction
       \/ LoadByCounter
       \/ GuidAddParameter
       \/ GuidSetCompleted
       \/ TraitsAddMetadata
    /\ UNCHANGED <<ds, db, subs, registry, triggers, main>>

SpecLoad == Init /\ [][NextLoad]_vars

\* ------------------------------------------------------------ metadata
\* One run, written with add_metadata under tags and values of the caller;
\* the durable write of a call may fail.
MetaTags == {"tag", "note"}
MetaTagValues == {"a", "b"}

\* add_metadata(tag, value) with either outcome
MetaAddMetadataOf(tag, value) ==
    \E r \in AddMetadataOutcomes(ds, db, tag, value) :
        Apply("add_metadata", r)

MetaAddMetadata ==
    \E tag \in MetaTags, value \in MetaTagValues : MetaAddMetadataOf(tag, value)

\* add_snapshot with two documents, with and without overwrite
MetaAddSnapshot == AddSnapshotFrom({JsonDumps("s1"), JsonDumps("s2")})

NextMeta ==
    \/ DoBind
    \/ MetaAddMetadata
    \/ MetaAddSnapshot
    \/ LoadByGuid
    \/ DoSetCompleted
    \/ DoAddParameter

SpecMeta == Init /\ [][NextMeta]_vars

\* ---------------------------------------------------------------- reads
\* A schema over Names is declared and get_values and get_setpoints are
\* called with names of parameters and with other strings.
ParamNameArgs == Names \cup {<<>>, <<",">>, <<"x", ",", "y">>, <<"z">>}

\* a read: the DataSet and the run are left as they are
ReadCall(op, r) ==
    /\ ret' = Ret(op, r.exc)
    /\ UNCHANGED <<ds, db, subs, registry, triggers, main, runs, objs>>

ReadGetValues ==
    \E param_name \in ParamNameArgs :
        ReadCall("get_values", GetValues(ds, db, param_name))

ReadGetSetpoints ==
    \E param_name \in ParamNameArgs :
        ReadCall("get_setpoints", GetSetpoints(ds, db, param_name))

NextRead ==
    \/ DoBind
    \/ DoAddAnyParameter
    \/ LoadByGuid
    \/ ReadGetValues
    \/ ReadGetSetpoints

SpecRead == Init /\ [][NextRead]_vars

\* ------------------------------------- two DataSets on one backend
\* The DataSet ds and a second DataSet object (objs[1]) of another run in
\* the same database.  Each has its own subscribers dict (registry for ds,
\* the field subscribers for the second), the triggers of both are in the
\* one catalog of the database.  Neither run is completed, so that the
\* completed flag a thread reads is False for either DataSet.  The caller
\* subscribes to both, inserts into ds and unsubscribes from ds.
SharedSubs == 3
SharedRows == 1
SharedIds == 1..SharedSubs

\* a = DataSet(); b = DataSet(); a.completed = False; b.completed = False
InitShared ==
    LET r == SetCompleted(InitFromMetaData("fresh", CreateRun), CreateRun,
                          FALSE)
        q == SetCompleted(InitFromMetaData("fresh", CreateRunFor("guid-2")),
                          CreateRunFor("guid-2"), FALSE)
    IN  /\ ds = r.d
        /\ db = r.b
        /\ ret = Ret("completed.setter", "None")
        /\ subs = <<>>
        /\ registry = <<>>
        /\ triggers = {}
        /\ main = Idle
        /\ runs = [g \in {"guid-2"} |-> q.b]
        /\ objs = <<[guid |-> "guid-2", d |-> q.d, subscribers |-> <<>>]>>

\* the user assigns a group of the attributes of a: those of the run in
\* the backend, or subscribers = {}
SharedBind ==
    /\ main.pc = "idle"
    /\ BindFrom(BindSets)

\* the user assigns the attributes of b
SharedBindOther ==
    /\ main.pc = "idle"
    /\ ~Bound(objs[1].d, UnassignedAttrs)
    /\ objs' = [objs EXCEPT ![1].d = BindAttrs(@, UnassignedAttrs)]
    /\ ret' = Ret("__setattr__", "None")
    /\ UNCHANGED <<ds, db, subs, registry, triggers, main, runs>>

\* a.add_parameter(x)
SharedAddParameter ==
    /\ SubAddParameter
    /\ UNCHANGED <<runs, objs>>

\* the identifiers in the subscribers dict of the second DataSet
OtherSubscribers == objs[1].subscribers

\* a.subscribe(callback)
SharedSubscribe ==
    /\ SubscribeWith(SharedSubs, "pass", {DefaultMinCount})
    /\ UNCHANGED <<runs, objs>>

\* a.subscribe_from_config(name)
SharedSubscribeFromConfig ==
    /\ SubscribeFromConfig(SharedSubs, "pass")
    /\ UNCHANGED <<runs, objs>>

\* b.subscribe(callback): the subscriber is of b's run, its trigger on b's
\* results table, its entry in b's subscribers dict
SharedSubscribeOther ==
    /\ main.pc = "idle"
    /\ Len(subs) < SharedSubs
    /\ IF ~Bound(objs[1].d, {"table_name", "conn"})
       THEN /\ Return("subscribe", "AttributeError")
            /\ UNCHANGED <<subs, triggers, objs>>
       ELSE IF ~Bound(objs[1].d, {"subscribers"})
       THEN /\ subs' = Append(subs,
                          [NewSubscriber(objs[1].d, runs[objs[1].guid],
                                         "pass", DefaultMinCount)
                              EXCEPT !.dataSet = 1, !.pc = "unstarted"])
            /\ triggers' = triggers \cup {Len(subs) + 1}
            /\ objs' = objs
            /\ Return("subscribe", "AttributeError")
       ELSE /\ subs' = Append(subs,
                          [NewSubscriber(objs[1].d, runs[objs[1].guid],
                                         "pass", DefaultMinCount)
                              EXCEPT !.dataSet = 1])
            /\ objs' = [objs EXCEPT
                           ![1].subscribers = Append(@, Len(subs) + 1)]
            /\ triggers' = triggers \cup {Len(subs) + 1}
            /\ Return("subscribe", "None")
    /\ UNCHANGED <<ds, db, registry, runs>>

\* a.add_result({'x': v}): every trigger installed on a's results table
\* fires, that of a subscriber whose registration failed included
SharedAddResult ==
    /\ AddResultFiring(SharedRows, {id \in triggers : subs[id].dataSet = 0})
    /\ UNCHANGED <<runs, objs>>

\* a.unsubscribe(id)
SharedUnsubscribeOf(id) ==
    /\ UnsubscribeAmong({id})
    /\ UNCHANGED <<runs, objs>>

SharedUnsubscribe == \E id \in SharedIds : SharedUnsubscribeOf(id)

\* a.unsubscribe_all()
SharedUnsubscribeAll ==
    /\ SubUnsubscribeAll
    /\ UNCHANGED <<runs, objs>>

SharedCallerStep ==
    /\ \/ CachePutStep
       \/ CacheCountStep
       \/ CacheLoadStep
       \/ CacheStoreStep
       \/ StopStep
       \/ JoinStep
    /\ UNCHANGED <<runs, objs>>

NextShared ==
    \/ SharedBind
    \/ SharedBindOther
    \/ SharedAddParameter
    \/ SharedSubscribe
    \/ SharedSubscribeFromConfig
    \/ SharedSubscribeOther
    \/ SharedAddResult
    \/ SharedUnsubscribe
    \/ SharedUnsubscribeAll
    \/ SharedCallerStep
    \/ ThreadStep

SpecShared == InitShared /\ [][NextShared]_vars

\* ------------------------------------------------------------- claims
ResultWrites == {"add_result", "add_results", "add_parameter_values"}
DeclaredNames(d) == {d.description[k].name : k \in 1..Len(d.description)}
Elements(list) == {list[k] : k \in 1..Len(list)}

\* C1: a DataSet constructed without a GUID is, right after construction,
\* neither started nor completed.
C1_FreshNotStartedNotCompleted ==
    (ret = Ret("__init__", "None") /\ ds.origin = "fresh")
        => (~ds.started /\ ~ds.completed)

\* C2: add_result on a completed DataSet raises CompletedError and changes
\* nothing: no row, the started flag and the backend descriptor as before.
C2_AddResultOnCompletedChangesNothing ==
    [][(ret'.op = "add_result" /\ ds.completed)
          => (ret'.exc = "CompletedError" /\ ds' = ds /\ db' = db)]_vars

\* C3: add_results and add_parameter_values on a completed DataSet raise
\* CompletedError and leave the row count as it was.
C3_AddResultsOnCompletedStoresNothing ==
    [][(ret'.op \in {"add_results", "add_parameter_values"} /\ ds.completed)
          => (ret'.exc = "CompletedError" /\ Len(db'.rows) = Len(db.rows))]_vars

\* C4: modify_result and modify_results on a completed DataSet raise
\* CompletedError, for every index and every updates argument, and leave
\* every stored cell (and everything else) as it was.
C4_ModifyOnCompletedRefused ==
    [][(ret'.op \in {"modify_result", "modify_results"} /\ ds.completed)
          => (ret'.exc = "CompletedError" /\ db' = db /\ ds' = ds)]_vars

\* C4 witness: modify_result was refused on a completed DataSet that holds a
\* row and declares the parameter x
C4_Witness ==
    /\ ret = Ret("modify_result", "CompletedError")
    /\ ds.completed
    /\ Len(db.rows) > 0
    /\ HasParam(ds, <<"x">>)

\* C5: once the completed flag of a DataSet object is true, it stays true
\* under every later call on that object, the completed setter included.
C5_CompletedIsIrreversible ==
    [][(ds.completed /\ ret'.op # "__init__") => ds'.completed]_vars

\* C6: the completed flag is true exactly when the backend holds a
\* completion timestamp, and started is false while the run has no result.
C6_FlagsMirrorBackend ==
    /\ ds.completed <=> (db.run_completed # NoneVal)
    /\ (Len(db.rows) = 0 /\ ~db.description_written) => ~ds.started

\* C7: on a completed DataSet, add_parameter and add_metadata leave the
\* schema and the metadata mapping, in memory and in the backend, unchanged.
C7_NoSchemaOrMetadataChangeAfterCompletion ==
    [][(ds.completed /\ ret'.op \in {"add_parameter", "add_metadata"})
          => (ds' = ds /\ db' = db)]_vars

\* C8: a DataSet object performs the start action (writing its schema
\* descriptor to the backend) exactly once, in its first add_result or
\* add_results call, which sets started; before it, started is false and a
\* fresh run's descriptor is unwritten; afterwards the descriptor is not
\* written again.
C8_StartActionOnce ==
    /\ [](/\ ds.start_actions <= 1
          /\ ds.started <=> (ds.start_actions = 1)
          /\ (ds.origin = "fresh" /\ ~ds.started) => ~db.description_written)
    /\ [][(ret'.op # "__init__") =>
            /\ (ds'.start_actions # ds.start_actions)
                  => (ret'.op \in ResultWrites /\ ~ds.started /\ ds'.started)
            /\ (ret'.op \in {"add_result", "add_results"} /\ ~ds.started)
                  => /\ ds'.started /\ ds'.start_actions = 1
                     /\ db'.description_written
                     /\ db'.run_description = ds.description
            /\ ds.started
                  => /\ ds'.started /\ ds'.start_actions = ds.start_actions
                     /\ db'.run_description = db.run_description]_vars

\* C9: add_parameter(spec) raises ValueError and changes nothing when
\* spec.name is declared or a name of spec.inferred_from or spec.depends_on
\* is not; in every other case it succeeds and appends spec to the schema.
C9_AddParameterValidation ==
    \A n \in Names, i \in RefLists, dp \in RefLists :
        LET spec == ParamSpec(n, i, dp)
            r == AddParameter(ds, db, spec)
            declared == DeclaredNames(ds)
        IN  IF n \in declared
               \/ ~(Elements(i) \subseteq declared)
               \/ ~(Elements(dp) \subseteq declared)
            THEN r.exc = "ValueError" /\ r.d = ds /\ r.b = db
            ELSE /\ r.exc = "None"
                 /\ r.d.description = Append(ds.description, spec)
                 /\ n \in r.b.columns

\* a schema in which names are pairwise distinct and every reference names
\* a parameter that stands strictly earlier
WellOrdered(desc) ==
    \A k \in 1..Len(desc) :
        /\ \A j \in 1..(k - 1) : desc[j].name # desc[k].name
        /\ \A n \in Names, i \in RefLists, dp \in RefLists :
              desc[k] = ParamSpec(n, i, dp)
                 => \A m \in Elements(i) \cup Elements(dp) :
                        \E j \in 1..(k - 1) : desc[j].name = m

\* C10: in the schema of a DataSet, and in the descriptor it wrote, names
\* are pairwise distinct and every inferred_from / depends_on name is the
\* name of a strictly earlier parameter.
C10_SchemaWellOrdered ==
    /\ WellOrdered(ds.description)
    /\ WellOrdered(db.run_description)
    /\ \A k \in 1..Len(ds.description) : ds.description[k] \in ParamSpecs

\* C10 witness: three parameters, the last one just added with two
\* depends_on names and one inferred_from name
C10_Witness ==
    /\ ret = Ret("add_parameter", "None")
    /\ Len(ds.description) = 3
    /\ \E n \in Names, i \in RefLists, dp \in RefLists :
          /\ ds.description[3] = ParamSpec(n, i, dp)
          /\ Len(dp) = 2 /\ Len(i) = 1
\* the keys of a value map
KeysOf(results) == {results[i][1] : i \in 1..Len(results)}
\* some key of the value map is a parameter of the schema with a non-empty
\* depends_on, one of whose setpoints is not a key of the value map
MissingSetpoint(d, results) ==
    \E k \in 1..Len(d.description) :
        /\ d.description[k].name \in KeysOf(results)
        /\ \E deps \in RefLists \ {<<>>} :
               /\ d.description[k].depends_on = Join(deps, CommaSpace)
               /\ ~(Elements(deps) \subseteq KeysOf(results))

\* C11: on a DataSet that is not completed, add_result(values)
\* fails as invalid input and stores no row when a supplied parameter misses
\* one of its setpoints, and in every other case succeeds and adds one row.
C11_AsStated ==
    \A results \in AllResultDicts :
        LET r == AddResult(ds, db, results) IN
        ~ds.completed =>
            IF MissingSetpoint(ds, results)
            THEN r.exc \in {"ValueError", "KeyError"} /\ r.b.rows = db.rows
            ELSE r.exc = "None" /\ Len(r.b.rows) = Len(db.rows) + 1

\* C12: on a DataSet that is not completed, add_results(list) returns the row
\* count before the call and the row count grows by exactly the length of
\* list, for every list of value maps over the declared parameters (so that
\* successive calls return the running sum of the batch sizes).
C12_AddResultsReturnsCountBefore ==
    \A results \in RowLists :
        LET r == AddResults(ds, db, results) IN
        (/\ ~ds.completed
         /\ \A i \in 1..Len(results) : KeysOf(results[i]) \subseteq DeclaredNames(ds))
            => /\ r.exc = "None"
               /\ r.val = <<Len(db.rows)>>
               /\ Len(r.b.rows) = Len(db.rows) + Len(results)

\* C13: number_of_results returns the current row count, the value
\* len(dataset) gives, whatever the state of the DataSet.
C13_NumberOfResultsIsRowCount ==
    (ret.op = "number_of_results") => (ret.val = <<Length(db)>>)

\* ---- subscribers
RECURSIVE ConcatBatches(_)
\* the batches of the callback invocations, one after the other
ConcatBatches(log) ==
    IF log = <<>> THEN <<>>
    ELSE ConcatBatches(SubSeq(log, 1, Len(log) - 1)) \o log[Len(log)].batch

\* the rows inserted since the subscription, as the trigger passes them
InsertedSince(sub) ==
    [k \in 1..(Len(db.rows) - sub.len_at_sub) |->
        TriggerArgs(sub, db.rows[sub.len_at_sub + k])]

IsPrefix(s, t) == Len(s) <= Len(t) /\ s = SubSeq(t, 1, Len(s))

Created == 1..Len(subs)

\* C14: for each subscriber, the batches passed to its callback, one after
\* the other, are a prefix of the rows inserted since the subscription (no
\* duplicate, no reordering), also when done_callback of mark_complete
\* drains the queue while the subscriber thread drains it.
C14_BatchesArePrefixOfInserts ==
    \A id \in Created :
        IsPrefix(ConcatBatches(subs[id].log), InsertedSince(subs[id]))

\* C15: on a run that is not completed, the polling loop of a subscriber
\* registered with min_count = n makes no callback with fewer than n rows
\* inserted since the last flush: every batch it passes has at least n rows.
C15_NoCallbackBelowMinCount ==
    \A id \in Created :
        \A k \in 1..Len(subs[id].log) :
            LET e == subs[id].log[k] IN
            (e.by = "loop" /\ ~e.completed /\ ~e.marked)
                => Len(e.batch) >= subs[id].min_queue_length

\* C16: when mark_complete has returned, every registered subscriber has had
\* its callback invoked on the completed DataSet, every row inserted before
\* has been passed to its callback, and its queue is empty.
C16_MarkCompleteDeliversEverything ==
    (main.pc = "idle" /\ ret = Ret("mark_complete", "None"))
        => \A id \in Created :
               InSeq(id, registry)
                   => /\ \E k \in 1..Len(subs[id].log) :
                             subs[id].log[k].completed
                      /\ subs[id].data_queue = <<>>
                      /\ ConcatBatches(subs[id].log) = InsertedSince(subs[id])

\* a subscriber removed from the registry has no trigger and no running
\* thread
UnsubscribedIsStopped ==
    \A id \in Created :
        ~InSeq(id, registry) => (id \notin triggers /\ subs[id].pc = "ended")

\* a step leaves the queue and the total counter of every subscriber that is
\* not in the registry as they were
UnsubscribedIsUntouched ==
    \A id \in Created :
        ~InSeq(id, registry)
            => /\ subs'[id].data_queue = subs[id].data_queue
               /\ subs'[id].data_set_len = subs[id].data_set_len

\* C17: once unsubscribe(id) has returned (id has left the registry), the
\* trigger of the subscriber is removed and its thread has ended, and no
\* later step, an insert included, changes its queue or its total counter.
C17_UnsubscribeDetaches ==
    []UnsubscribedIsStopped /\ [][UnsubscribedIsUntouched]_vars

\* a row has been inserted after the subscriber left the registry through
\* unsubscribe, and was not pushed on its queue; an earlier row was
C17_Witness ==
    /\ main.pc = "idle"
    /\ ret = Ret("add_result", "None")
    /\ \E id \in Created :
          /\ ~InSeq(id, registry)
          /\ subs[id].stop_signal
          /\ subs[id].pushed = 1
          /\ Len(db.rows) = subs[id].len_at_sub + 2

\* C18: when unsubscribe_all has returned, no trigger is installed in the
\* backend, the thread of every subscriber has ended and the registry is
\* empty.
C18_UnsubscribeAllClears ==
    (main.pc = "idle" /\ ret = Ret("unsubscribe_all", "None"))
        => /\ triggers = {}
           /\ registry = <<>>
           /\ \A id \in Created : subs[id].pc = "ended"

\* unsubscribe_all has returned after stopping two subscribers, each with a
\* row pushed on its queue
C18_Witness ==
    /\ main.pc = "idle"
    /\ ret = Ret("unsubscribe_all", "None")
    /\ \E i, j \in Created :
          /\ i # j
          /\ subs[i].stop_signal /\ subs[i].pushed >= 1
          /\ subs[j].stop_signal /\ subs[j].pushed >= 1

\* C19: the total passed to the callback never decreases from one
\* invocation to the next and equals the row count at subscription plus the
\* rows pushed on the queue so far; hence it is at least the number of rows
\* passed to the callback up to and including that batch.
C19_TotalCountsPushedRows ==
    \A id \in Created :
        \A k \in 1..Len(subs[id].log) :
            LET e == subs[id].log[k] IN
            /\ k > 1 => subs[id].log[k - 1].total <= e.total
            /\ e.total = subs[id].len_at_sub + e.pushed
            /\ e.total >= Len(ConcatBatches(SubSeq(subs[id].log, 1, k)))

\* ---- several runs
\* the step constructs a DataSet
Constructs == ret'.op = "__init__" /\ Len(objs') = Len(objs) + 1
\* the last object constructed
Last(os) == os[Len(os)]

\* a DataSet constructed without a GUID has a GUID that no run and no
\* other object had before, and its run is in the backend under that GUID
FreshGuidIsNew ==
    (Constructs /\ Last(objs').d.origin = "fresh")
        => /\ Last(objs').guid \notin DOMAIN runs
           /\ \A i \in 1..Len(objs) : objs[i].guid # Last(objs').guid
           /\ Last(objs').guid \in DOMAIN runs'

\* the object o was constructed without a GUID and nothing has been written
\* since, to the object or to its run (the attributes the caller assigns
\* aside): right after the creation
RightAfterCreation(o, rs) ==
    /\ o.d.origin = "fresh"
    /\ rs[o.guid] = CreateRunFor(o.guid)
    /\ o.d = [InitFromMetaData("fresh", rs[o.guid])
                 EXCEPT !.attrs = o.d.attrs]

\* a DataSet constructed from the GUID of a DataSet right after its creation
\* is the same dataset as that one, either way round, whatever other runs
\* and objects there are
LoadedRightAfterCreationIsSame ==
    \A i \in 1..Len(objs) :
        (/\ Constructs
         /\ ret'.exc = "None"
         /\ Last(objs').d.origin = "guid"
         /\ Last(objs').guid = objs[i].guid
         /\ RightAfterCreation(objs[i], runs))
            => /\ TheSameDatasetAs(objs[i], Last(objs'), runs') = "True"
               /\ TheSameDatasetAs(Last(objs'), objs[i], runs') = "True"

SameRun(i, j) == objs[i].guid = objs[j].guid

\* C21: after any sequence of add_parameter, add_metadata, add_result,
\* add_results and mark_complete made through one DataSet object, every
\* DataSet object with the same GUID, constructed before or after, agrees with
\* it on every persistent trait: the_same_dataset_as between them returns
\* True and does not raise.
C21_SameGuidObjectsAgree ==
    \A i, j \in 1..Len(objs) :
        SameRun(i, j) => TheSameDatasetAs(objs[i], objs[j], runs) = "True"

\* values that are not DataSet objects
NotDataSets == {[value |-> NoneVal], [value |-> "guid-1"]}

\* the persistent traits on which two DataSet objects differ
Differing(i, j) ==
    LET mine == TraitsOf(objs[i], runs)
        theirs == TraitsOf(objs[j], runs)
    IN  {attr \in DOMAIN mine : mine[attr] # theirs[attr]}

\* C22: the_same_dataset_as(other) returns False when other is not a DataSet;
\* for a DataSet other it returns True exactly when all thirteen persistent
\* traits are equal, raises the critical-inconsistency error exactly when the
\* GUIDs are equal and some other trait differs, and returns False exactly
\* when the GUIDs differ.
C22_TheSameDatasetAsDecides ==
    /\ \A i \in 1..Len(objs), o \in NotDataSets :
           TheSameDatasetAs(objs[i], o, runs) = "False"
    /\ \A i, j \in 1..Len(objs) :
           LET r == TheSameDatasetAs(objs[i], objs[j], runs)
               differing == Differing(i, j)
           IN  /\ Cardinality(DOMAIN TraitsOf(objs[i], runs)) = 13
               /\ DOMAIN TraitsOf(objs[i], runs)
                      = {persistent_traits[k] : k \in 1..Len(persistent_traits)}
               /\ r = "True" <=> differing = {}
               /\ r = "RuntimeError"
                      <=> (SameRun(i, j) /\ differing \ {"guid"} # {})
               /\ r = "False" <=> ~SameRun(i, j)

\* two objects of one run differ in a trait, so the call raises
C22_Witness ==
    \E i, j \in 1..Len(objs) :
        /\ SameRun(i, j)
        /\ Differing(i, j) # {}
        /\ TheSameDatasetAs(objs[i], objs[j], runs) = "RuntimeError"

\* ---- loaders
\* the step returned a DataSet object of the existing run with GUID g and
\* left the set of run records as it was
ReturnsBoundTo(g) ==
    /\ ret'.exc = "None"
    /\ Len(objs') = Len(objs) + 1
    /\ Last(objs').guid = g
    /\ DOMAIN runs' = DOMAIN runs

\* C23: load_by_id, load_by_guid and load_by_counter, called with the run
\* id, the GUID, or the counter and experiment of an existing run, return a
\* DataSet bound to that run (its guid is the GUID of that run) and create no
\* run record: the backend holds the same runs after the call as before.
C23_LoadersBindExistingRun ==
    [][\A g \in DOMAIN runs :
          /\ LoadCall("load_by_id", load_by_id(runs, <<runs[g].run_id>>))
                 => ReturnsBoundTo(g)
          /\ LoadCall("load_by_guid", load_by_guid(runs, g))
                 => ReturnsBoundTo(g)
          /\ LoadCall("load_by_counter",
                      load_by_counter(runs, runs[g].result_counter,
                                      runs[g].exp_id))
                 => ReturnsBoundTo(g)]_vars

\* ---- metadata
\* C24: add_metadata(tag, value) is all-or-nothing: after a call that
\* returns, the in-memory metadata mapping and the backend both hold value
\* under tag; after a call whose durable write fails, the in-memory mapping
\* is the same as before the call.
C24_AddMetadataAllOrNothing ==
    [][\A tag \in MetaTags, value \in MetaTagValues :
          MetaAddMetadataOf(tag, value)
              => IF ret'.exc = "None"
                 THEN /\ tag \in DOMAIN ds'.metadata
                      /\ ds'.metadata[tag] = value
                      /\ tag \in DOMAIN db'.tags
                      /\ db'.tags[tag] = value
                 ELSE /\ ds'.metadata = ds.metadata
                      /\ db'.tags = db.tags]_vars

\* ---- reads
\* a call with a string that is not the name of a parameter of the schema
\* raises ValueError
UnknownNameIsValueError ==
    \A param_name \in ParamNameArgs :
        param_name \notin DeclaredNames(ds)
            => /\ ReadCall("get_values", GetValues(ds, db, param_name))
                      => ret'.exc = "ValueError"
               /\ ReadCall("get_setpoints", GetSetpoints(ds, db, param_name))
                      => ret'.exc = "ValueError"

\* get_setpoints of a parameter without depends_on raises the 'no
\* setpoints' ValueError
NoSetpointsIsValueError ==
    \A param_name \in DeclaredNames(ds) :
        ParamSpecOf(ds, param_name).depends_on = <<>>
            => GetSetpoints(ds, db, param_name)
                   = [exc |-> "ValueError", msg |-> "has no setpoints"]

\* C25: get_values(param_name) and get_setpoints(param_name) raise ValueError
\* for every string that is not equal to the name of a parameter of the
\* current schema, and get_setpoints raises the 'no setpoints' ValueError for
\* every parameter of the schema whose depends_on is empty.
C25_UnknownParameterRefused ==
    []NoSetpointsIsValueError /\ [][UnknownNameIsValueError]_vars

\* ---- subscriber threads
\* the thread of subscriber id is running
Running(id) == id \in Created /\ subs[id].pc # "ended"

\* the thread of subscriber id has ended with the drain-and-invoke that
\* follows completion
EndedByFinalDrain(id) ==
    /\ id \in Created
    /\ subs[id].pc = "ended"
    /\ subs[id].final

\* C26: once the completed flag of the DataSet is true, every running
\* subscriber thread whose stop has not been scheduled eventually makes the
\* drain-and-invoke of its queue and ends, or has its stop scheduled in the
\* meantime (with the thread scheduled fairly).
C26_CompletedEndsThreads ==
    \A id \in SubIds :
        (ds.completed /\ Running(id) /\ ~subs[id].stop_signal)
            ~> (EndedByFinalDrain(id)
                    \/ (id \in Created /\ subs[id].stop_signal))

\* a stop flag that is set stays set
StopFlagStays ==
    \A id \in Created : subs[id].stop_signal => subs'[id].stop_signal

\* the callback invocations the thread of subscriber id made with its stop
\* flag set
CallsAfterStop(id) ==
    {k \in 1..Len(subs[id].log) :
        subs[id].log[k].stopped /\ subs[id].log[k].by \in {"loop", "final"}}

\* a thread at the top of its loop with the flag set ends there, without a
\* callback invocation
StoppedAtTopEnds ==
    \A id \in Created :
        (subs[id].pc = "top" /\ subs[id].stop_signal /\ ThreadOf(id))
            => subs'[id].pc = "ended" /\ subs'[id].log = subs[id].log

\* C27: after schedule_stop has set the stop flag of a subscriber, the flag
\* never returns to false, the thread makes at most one further callback
\* invocation before it ends, and a thread that finds the flag set at the top
\* of its loop ends without invoking the callback.
C27_StopEndsThreadSoon ==
    /\ [](\A id \in Created : Cardinality(CallsAfterStop(id)) <= 1)
    /\ [][StopFlagStays /\ StoppedAtTopEnds]_vars

\* subscriber id, its thread running, neither stopped nor on a completed
\* DataSet, has at least min_count rows in its queue
BatchWaiting(id) ==
    /\ Running(id)
    /\ ~subs[id].stop_signal
    /\ ~ds.completed
    /\ Len(subs[id].data_queue) >= subs[id].min_queue_length

\* the rows have been taken off the queue, or the subscriber has been
\* stopped, or the DataSet completed, or the thread has ended
BatchTaken(id) ==
    /\ id \in Created
    /\ \/ Len(subs[id].data_queue) < subs[id].min_queue_length
       \/ subs[id].stop_signal
       \/ ds.completed
       \/ subs[id].pc = "ended"

\* C28: whenever a subscriber that is neither stopped nor completed has at
\* least min_count rows in its queue that have not been passed to the
\* callback, its thread eventually takes them off the queue for a callback
\* invocation, also when rows are inserted while an earlier batch is drained
\* and delivered (with the thread scheduled fairly).
C28_QueuedRowsAreDelivered ==
    \A id \in SubIds : BatchWaiting(id) ~> BatchTaken(id)

\* the subscribers of either DataSet: those with an entry in a subscribers
\* dict
Registered(id) == InSeq(id, registry) \/ InSeq(id, OtherSubscribers)

\* the subscribers an unsubscribe or unsubscribe_all in progress is
\* removing: the one named, or all of the DataSet it was called on
BeingRemoved(id) ==
    /\ main.pc \in {"stop", "join"}
    /\ IF main.op = "unsubscribe" THEN id = Head(main.order)
       ELSE InSeq(id, registry)

\* the subscriber has its trigger, has not been told to stop and its thread
\* runs
Intact(id) ==
    /\ id \in triggers
    /\ ~subs[id].stop_signal
    /\ subs[id].pc # "ended"

\* a.unsubscribe(id) leaves every other subscriber as it is
UnsubscribeKeepsOthers ==
    \A id \in SharedIds :
        SharedUnsubscribeOf(id) =>
            \A other \in Created \ {id} :
                Registered(other) /\ Intact(other) => Intact(other)'

\* a.unsubscribe_all() leaves the subscribers of b as they are
UnsubscribeAllKeepsOthers ==
    SharedUnsubscribeAll =>
        \A other \in Created :
            InSeq(other, OtherSubscribers) /\ Intact(other) => Intact(other)'

\* C29: unsubscribe(id) and unsubscribe_all on one DataSet affect only that
\* DataSet's subscribers: every other subscriber (another id of the same
\* DataSet for unsubscribe, the subscribers of another DataSet on the same
\* backend for both) keeps its trigger, its registry entry and its running
\* thread, so that a registered subscriber that is not being removed always
\* has its trigger installed.
C29_UnsubscribeAffectsOwnOnly ==
    /\ [](\A id \in Created : Registered(id) /\ ~BeingRemoved(id) => Intact(id))
    /\ [][UnsubscribeKeepsOthers /\ UnsubscribeAllKeepsOthers]_vars

====
